---- MODULE Spec2Model ----
(***************************************************************************)
(* CHIMERA analysis engine: the recursive field walker                     *)
(* (discover_fields_recursive) and the statistics passes of                *)
(* analyze_records, src/backend/analyzer.py, with the legacy metadata      *)
(* lookup of src/backend/betfair_dictionary.py.                            *)
(*                                                                         *)
(* Strings that the code takes apart or compares (keys, paths) are         *)
(* sequences of one-character strings; JSON values are records             *)
(*   [t |-> type(value).__name__, n |-> number, s |-> characters,          *)
(*    kv |-> items]                                                        *)
(* where a dict keeps its items in insertion order as [k |-> key, v |->    *)
(* value] and a list keeps its elements as [k |-> <<>>, v |-> element].    *)
(* A float's n is its value in tenths.  Percentages rounded to 2 decimals  *)
(* are integers in hundredths (10000 is 100.0).                            *)
(***************************************************************************)
EXTENDS Integers, Sequences, FiniteSets, TLC

VARIABLES
  records,         \* the batch handed to analyze_records
  run,             \* 1: first run of the pipeline on the batch, 2: the re-run
  pc,              \* position inside analyze_records
  i,               \* index (1-based) of the record being walked
  todo,            \* observations of the current record not yet registered
  field_registry,  \* path -> entry, in insertion order
  results,         \* the report under construction
  timestamps,      \* the list phase 5 collects
  exception,       \* the exception that ended the run, "" when none
  first,           \* outcome of the first run, kept to compare the re-run with
  job_status,      \* the server's job table: job number -> job record
  task,            \* position of each job's background task
  response         \* the last response the server has sent

\* the variables of analyze_records and those of the server
avars == <<records, run, pc, i, todo, field_registry, results, timestamps,
           exception, first>>
jvars == <<job_status, task, response>>
vars == <<records, run, pc, i, todo, field_registry, results, timestamps,
          exception, first, job_status, task, response>>

(***************************************************************************)
(* Bounds of the model                                                     *)
(***************************************************************************)
MaxRun == 2
BulkRun == 19
MaxStream == 3
\* the deepest nesting of a record
MaxNest == 12
\* the number of jobs the server takes
MaxJobs == 2

(***************************************************************************)
(* Program constants                                                       *)
(***************************************************************************)
max_depth == 10
SampleCap == 5
SampleMaxList == 10
SampleTruncate == 3
WalkItems == 3
RareCap == 20
SchemaCap == 50
NameCap == 128

NONE == "<None>"

(***************************************************************************)
(* JSON values                                                             *)
(***************************************************************************)
JInt(n) == [t |-> "int", n |-> n, s |-> <<>>, kv |-> <<>>]
JFloat(tenths) == [t |-> "float", n |-> tenths, s |-> <<>>, kv |-> <<>>]
JBool(b) == [t |-> "bool", n |-> IF b THEN 1 ELSE 0, s |-> <<>>, kv |-> <<>>]
JStr(chars) == [t |-> "str", n |-> 0, s |-> chars, kv |-> <<>>]
JNull == [t |-> "NoneType", n |-> 0, s |-> <<>>, kv |-> <<>>]
JDict(items) == [t |-> "dict", n |-> 0, s |-> <<>>, kv |-> items]
JList(elems) == [t |-> "list", n |-> 0, s |-> <<>>,
                 kv |-> [j \in 1..Len(elems) |-> [k |-> <<>>, v |-> elems[j]]]]
Item(k, v) == [k |-> k, v |-> v]

IsDict(v) == v.t = "dict"
IsList(v) == v.t = "list"
IsNumber(v) == v.t \in {"int", "float", "bool"}
\* the number's value in tenths, so that int and float compare exactly
Tenths(v) == IF v.t = "float" THEN v.n ELSE 10 * v.n
\* Python truthiness, as in `if pt:`
Truthy(v) ==
  CASE IsNumber(v) -> v.n # 0
    [] v.t = "str" -> v.s # <<>>
    [] v.t = "NoneType" -> FALSE
    [] OTHER -> v.kv # <<>>

Min(a, b) == IF a < b THEN a ELSE b

(***************************************************************************)
(* Characters and strings                                                  *)
(***************************************************************************)
\* the characters in use, in code point order
Ascii == <<" ", ".", "0", "1", "2", "3", "4", "5", "6", "7", "8", "9",
           "A", "B", "C", "D", "E", "F", "G", "H", "I", "J", "K", "L", "M",
           "N", "O", "P", "Q", "R", "S", "T", "U", "V", "W", "X", "Y", "Z",
           "[", "]", "_",
           "a", "b", "c", "d", "e", "f", "g", "h", "i", "j", "k", "l", "m",
           "n", "o", "p", "q", "r", "s", "t", "u", "v", "w", "x", "y", "z">>
Ord(c) == CHOOSE n \in 1..Len(Ascii) : Ascii[n] = c
IsLower(c) == Ord(c) >= Ord("a") /\ Ord(c) <= Ord("z")
IsUpper(c) == Ord(c) >= Ord("A") /\ Ord(c) <= Ord("Z")
IsAlpha(c) == IsLower(c) \/ IsUpper(c)
IsDigit(c) == Ord(c) >= Ord("0") /\ Ord(c) <= Ord("9")
Upper(c) == IF IsLower(c) THEN Ascii[Ord(c) - Ord("a") + Ord("A")] ELSE c
Lower(c) == IF IsUpper(c) THEN Ascii[Ord(c) - Ord("A") + Ord("a")] ELSE c
DigitChar(d) == Ascii[Ord("0") + d]

RECURSIVE StrOf(_)
StrOf(chars) == IF chars = <<>> THEN "" ELSE Head(chars) \o StrOf(Tail(chars))

RECURSIVE DecimalChars(_)
DecimalChars(n) ==
  IF n < 10 THEN <<DigitChar(n)>>
  ELSE DecimalChars(n \div 10) \o <<DigitChar(n % 10)>>

\* Python's < on str: lexicographic by code point
RECURSIVE StrLess(_, _)
StrLess(a, b) ==
  IF b = <<>> THEN FALSE
  ELSE IF a = <<>> THEN TRUE
  ELSE IF Head(a) = Head(b) THEN StrLess(Tail(a), Tail(b))
  ELSE Ord(Head(a)) < Ord(Head(b))

\* str.replace('_', ' ')
ReplaceUnderscore(chars) ==
  [j \in 1..Len(chars) |-> IF chars[j] = "_" THEN " " ELSE chars[j]]
\* str.title(): a letter that follows a non-letter is upper-cased, any other
\* letter lower-cased
Title(chars) ==
  [j \in 1..Len(chars) |->
     IF j = 1 \/ ~IsAlpha(chars[j - 1]) THEN Upper(chars[j]) ELSE Lower(chars[j])]

(***************************************************************************)
(* Keys                                                                    *)
(***************************************************************************)
K_pt == <<"p", "t">>
K_mc == <<"m", "c">>
K_rc == <<"r", "c">>
K_oc == <<"o", "c">>
K_uo == <<"u", "o">>
K_id == <<"i", "d">>
K_ltp == <<"l", "t", "p">>
K_batl == <<"b", "a", "t", "l">>
K_runners == <<"r", "u", "n", "n", "e", "r", "s">>
K_marketDefinition == <<"m", "a", "r", "k", "e", "t", "D", "e", "f", "i", "n",
                        "i", "t", "i", "o", "n">>
K_status == <<"s", "t", "a", "t", "u", "s">>
K_a == <<"a">>
K_a_b == <<"a", " ", "b">>
K_mc_id == <<"m", "c", ".", "i", "d">>
K_mc__id == <<"m", "c", "_", "i", "d">>
K_rc_id == <<"r", "c", ".", "i", "d">>

(***************************************************************************)
(* The metadata lookup (legacy dictionary).  Each table holds the rows of  *)
(* the source table for the keys that occur in the modelled batches.       *)
(***************************************************************************)
Row(k, name, description, category) ==
  [k |-> k, name |-> name, description |-> description, category |-> category]

RUNNER_CHANGE_FIELDS == <<
  Row(K_id, "Selection ID", "Unique runner/selection identifier", "Runner Identity"),
  Row(K_ltp, "Last Traded Price", "Most recent matched price", "Price - Core"),
  Row(K_batl, "Best Available To Lay", "Best lay prices [level, price, size]",
      "Order Book - Lay")>>
MARKET_DEFINITION_FIELDS == <<
  Row(K_status, "Market Status", "Current status (OPEN, SUSPENDED, CLOSED)", "Market State")>>
RUNNER_DEFINITION_FIELDS == <<
  Row(K_id, "Selection ID", "Unique runner/selection identifier", "Runner Identity"),
  Row(K_status, "Runner Status", "Status (ACTIVE, WINNER, LOSER, REMOVED)", "Runner State")>>
MARKET_CHANGE_FIELDS == <<
  Row(K_id, "Market ID", "Unique Betfair market identifier (e.g., 1.123456789)", "Market Identity"),
  Row(K_marketDefinition, "Market Definition", "Full market metadata including event, venue, rules", "Market Metadata"),
  Row(K_rc, "Runner Changes", "Array of price/volume updates for selections", "Price Data")>>
ORDER_CHANGE_FIELDS == <<
  Row(K_id, "Account ID", "Betfair account identifier", "Account")>>
UNMATCHED_ORDER_FIELDS == <<
  Row(K_id, "Bet ID", "Unique bet identifier", "Bet Identity"),
  Row(K_status, "Status", "Order status (E=Executable, EC=Execution Complete)", "Bet State"),
  Row(K_pt, "Persistence Type", "L=Lapse, P=Persist, MOC=Market On Close", "Bet Details"),
  Row(K_rc, "Regulator Code", "Regulatory code", "Compliance")>>
MATCHED_FIELDS == <<>>
TOP_LEVEL_FIELDS == <<
  Row(K_pt, "Publish Time", "Timestamp when message was published (milliseconds since epoch)", "Message Metadata"),
  Row(K_status, "Stream Status", "Stream health (null=OK, 503=latency issues)", "Message Metadata"),
  Row(K_mc, "Market Changes", "Array of market change objects", "Market Data"),
  Row(K_id, "Identifier", "Unique identifier (market ID, selection ID, or bet ID depending on context)", "Identifier")>>

\* the tables searched for a context, the context's own table first
Lookups(context) ==
  (CASE context = "rc" -> <<RUNNER_CHANGE_FIELDS>>
     [] context = "marketDefinition" -> <<MARKET_DEFINITION_FIELDS>>
     [] context = "mc" -> <<MARKET_CHANGE_FIELDS>>
     [] context = "uo" -> <<UNMATCHED_ORDER_FIELDS>>
     [] context = "oc" -> <<ORDER_CHANGE_FIELDS>>
     [] OTHER -> <<>>)
  \o <<RUNNER_CHANGE_FIELDS, MARKET_DEFINITION_FIELDS, RUNNER_DEFINITION_FIELDS,
       MARKET_CHANGE_FIELDS, ORDER_CHANGE_FIELDS, UNMATCHED_ORDER_FIELDS,
       MATCHED_FIELDS, TOP_LEVEL_FIELDS>>

InTable(table, k) == \E j \in 1..Len(table) : table[j].k = k
TableRow(table, k) == table[CHOOSE j \in 1..Len(table) : table[j].k = k]

get_field_info(field_name, context) ==
  LET lookups == Lookups(context)
      hits == {j \in 1..Len(lookups) : InTable(lookups[j], field_name)}
  IN IF hits # {}
     THEN LET first_hit == CHOOSE j \in hits : \A h \in hits : j <= h
              row == TableRow(lookups[first_hit], field_name)
          IN [name |-> row.name, description |-> row.description,
              category |-> row.category]
     ELSE [name |-> StrOf(Title(ReplaceUnderscore(field_name))),
           description |-> "Field: " \o StrOf(field_name),
           category |-> "Unknown"]

(***************************************************************************)
(* The walker.  discover_fields_recursive yields, in visit order, one      *)
(* observation per loop iteration of the source (one key of one mapping);  *)
(* Register is the body of that iteration acting on the registry.          *)
(***************************************************************************)
ContextKeys == <<K_mc, K_rc, K_marketDefinition, K_runners, K_oc, K_uo>>

\* a key that is no tag resets the context
ChildContext_Reset(key, context) ==
  IF \E j \in 1..Len(ContextKeys) : ContextKeys[j] = key
  THEN StrOf(key)
  ELSE NONE
ChildContext(key, context) ==
  IF \E j \in 1..Len(ContextKeys) : ContextKeys[j] = key
  THEN StrOf(key)
  ELSE context

FieldPath(path, key) == IF path # <<>> THEN path \o <<".">> \o key ELSE key
\* every element goes under the index 0
ItemPath_First(field_path, idx) == field_path \o <<"[", "0", "]">>
\* f"{field_path}[{i}]"
ItemPath(field_path, idx) == field_path \o <<"[">> \o DecimalChars(idx) \o <<"]">>

\* type(value).__name__, as characters
TypeName(value) ==
  CASE value.t = "int" -> <<"i", "n", "t">>
    [] value.t = "float" -> <<"f", "l", "o", "a", "t">>
    [] value.t = "bool" -> <<"b", "o", "o", "l">>
    [] value.t = "str" -> <<"s", "t", "r">>
    [] value.t = "NoneType" -> <<"N", "o", "n", "e", "T", "y", "p", "e">>
    [] value.t = "dict" -> <<"d", "i", "c", "t">>
    [] value.t = "list" -> <<"l", "i", "s", "t">>
W_array == <<"a", "r", "r", "a", "y">>
W_object == <<"o", "b", "j", "e", "c", "t">>

\* every array is taken for an array of objects
ValueType_Hinted(value) ==
  IF IsList(value) THEN W_array \o <<"[">> \o W_object \o <<"]">>
  ELSE TypeName(value)
ValueType(value) ==
  IF IsList(value) /\ Len(value.kv) > 0
  THEN LET first_item == value.kv[1].v
       IN IF IsDict(first_item) THEN W_array \o <<"[">> \o W_object \o <<"]">>
          ELSE IF IsList(first_item) THEN W_array \o <<"[">> \o W_array \o <<"]">>
          ELSE W_array \o <<"[">> \o TypeName(first_item) \o <<"]">>
  ELSE TypeName(value)

\* seqs[lo] \o ... \o seqs[hi], joined by halves
RECURSIVE Flatten(_, _, _)
Flatten(seqs, lo, hi) ==
  IF lo > hi THEN <<>>
  ELSE IF lo = hi THEN seqs[lo]
  ELSE LET mid == (lo + hi) \div 2
       IN Flatten(seqs, lo, mid) \o Flatten(seqs, mid + 1, hi)

\* the cut comes one level early
TooDeep_OneEarly(depth) == depth >= max_depth
\* if depth > max_depth: return field_registry
TooDeep(depth) == depth > max_depth

RECURSIVE discover_fields_recursive(_, _, _, _)
RECURSIVE WalkKey(_, _, _, _, _)
RECURSIVE WalkElements(_, _, _, _, _)

\* one iteration of the for loop over obj.items(), for item number k: the
\* observation of the key, then the observations below it
WalkKey(obj, k, path, depth, context) ==
  LET key == obj.kv[k].k
      value == obj.kv[k].v
      field_path == FieldPath(path, key)
      child_context == ChildContext(key, context)
      observation == [path |-> field_path, key |-> key, context |-> context,
                      child_context |-> child_context, value |-> value]
      below == IF IsDict(value)
               THEN discover_fields_recursive(value, field_path, depth + 1,
                                              child_context)
               ELSE IF IsList(value)
               THEN WalkElements(value, 1, field_path, depth, child_context)
               ELSE <<>>
  IN <<observation>> \o below

\* the for loop over obj.items()
WalkKeys(obj, path, depth, context) ==
  Flatten([k \in 1..Len(obj.kv) |-> WalkKey(obj, k, path, depth, context)],
          1, Len(obj.kv))

\* the for loop over enumerate(value[:3]), from element number j (1-based) on
WalkElements(value, j, field_path, depth, child_context) ==
  IF j > Min(Len(value.kv), WalkItems) THEN <<>>
  ELSE LET item == value.kv[j].v
       IN (IF IsDict(item)
           THEN discover_fields_recursive(item, ItemPath(field_path, j - 1),
                                          depth + 1, child_context)
           ELSE <<>>)
          \o WalkElements(value, j + 1, field_path, depth, child_context)

discover_fields_recursive(obj, path, depth, context) ==
  IF TooDeep(depth) THEN <<>>
  ELSE IF IsDict(obj) THEN WalkKeys(obj, path, depth, context)
  ELSE <<>>

(***************************************************************************)
(* The registry                                                            *)
(***************************************************************************)
\* the membership test is lost: every observation creates an entry
InRegistry_Never(registry, field_path) == FALSE
InRegistry(registry, field_path) ==
  \E j \in 1..Len(registry) : registry[j].path = field_path
IndexOfPath(registry, field_path) ==
  CHOOSE j \in 1..Len(registry) :
    /\ registry[j].path = field_path
    /\ \A h \in 1..(j - 1) : registry[h].path # field_path

NewEntry(o) ==
  LET field_info == get_field_info(o.key, o.child_context)
  IN [path |-> o.path, key |-> o.key,
      name |-> field_info.name,
      description |-> field_info.description,
      category |-> field_info.category,
      \* no row of the legacy tables has an ml_relevance: the default
      ml_relevance |-> "unknown",
      type |-> ValueType(o.value),
      count |-> 0,
      sample_values |-> <<>>,
      contexts |-> {}]

TakesSample(value) ==
  ~(IsDict(value) \/ IsList(value)) \/ (IsList(value) /\ Len(value.kv) < SampleMaxList)
SampleOf(value) ==
  IF IsList(value) /\ Len(value.kv) > 0
  THEN [value EXCEPT !.kv = SubSeq(value.kv, 1, Min(Len(value.kv), SampleTruncate))]
  ELSE value

\* the count goes up by 2
AddCount_Twice(entry) == [entry EXCEPT !.count = @ + 2]
AddCount(entry) == [entry EXCEPT !.count = @ + 1]
AddContext(entry, context) ==
  IF context # NONE THEN [entry EXCEPT !.contexts = @ \cup {context}] ELSE entry
\* the cap is tested off by one
AddSample_OffByOne(entry, value) ==
  IF Len(entry.sample_values) <= SampleCap /\ TakesSample(value)
  THEN [entry EXCEPT !.sample_values = Append(@, SampleOf(value))]
  ELSE entry
AddSample(entry, value) ==
  IF Len(entry.sample_values) < SampleCap /\ TakesSample(value)
  THEN [entry EXCEPT !.sample_values = Append(@, SampleOf(value))]
  ELSE entry

\* a later observation retypes the entry
UpdateEntry_Retype(entry, o) ==
  [AddSample(AddContext(AddCount(entry), o.context), o.value)
     EXCEPT !.type = ValueType(o.value)]
\* what every observation of a path does to the path's entry
UpdateEntry(entry, o) == AddSample(AddContext(AddCount(entry), o.context), o.value)

Register(registry, o) ==
  LET created == IF ~InRegistry(registry, o.path)
                 THEN Append(registry, NewEntry(o))
                 ELSE registry
      at == IndexOfPath(created, o.path)
  IN [created EXCEPT ![at] = UpdateEntry(@, o)]

(***************************************************************************)
(* Phase 1 post-pass: contexts as lists, presence percentages, the sort    *)
(***************************************************************************)
\* list(a_set): the iteration order of a set of strings follows the strings'
\* hashes, which the interpreter salts per process; any order can come out
Orderings(S) ==
  {f \in [1..Cardinality(S) -> S] : \A a, b \in 1..Cardinality(S) : a # b => f[a] # f[b]}

\* the lists that list(contexts) can give for the entries lo..hi, one list
\* per entry
RECURSIVE ContextLists(_, _, _)
ContextLists(registry, lo, hi) ==
  IF lo > hi THEN {<<>>}
  ELSE IF lo = hi THEN {<<o>> : o \in Orderings(registry[lo].contexts)}
  ELSE LET mid == (lo + hi) \div 2
       IN {front \o rest : front \in ContextLists(registry, lo, mid),
                           rest \in ContextLists(registry, mid + 1, hi)}

\* Python's round() to an integer of num / den (num >= 0, den > 0)
RoundHalfEven(num, den) ==
  LET q == num \div den
      r == num % den
  IN IF 2 * r < den THEN q
     ELSE IF 2 * r > den THEN q + 1
     ELSE IF q % 2 = 0 THEN q ELSE q + 1

\* round((count / total) * 100, 2), in hundredths
PresencePct(count, total) == RoundHalfEven(10000 * count, total)

FinalEntry(entry, contexts_list, total) ==
  [path |-> entry.path, key |-> entry.key, name |-> entry.name,
   description |-> entry.description, category |-> entry.category,
   ml_relevance |-> entry.ml_relevance, type |-> entry.type,
   count |-> entry.count, sample_values |-> entry.sample_values,
   contexts |-> contexts_list,
   presence_pct |-> PresencePct(entry.count, total)]

\* the path is left out of the sort key
SortKeyLess_NoTieBreak(a, b) == a.presence_pct > b.presence_pct
\* the sort key (-presence_pct, path), compared as Python compares tuples
SortKeyLess(a, b) ==
  \/ a.presence_pct > b.presence_pct
  \/ a.presence_pct = b.presence_pct /\ StrLess(a.path, b.path)

\* the order a stable sort gives to the items 1..n, as the list of their old
\* indexes; less holds the pairs <<h, j>> where the key of item h is less
\* than the key of item j.  Item h comes before item j when its key is less,
\* or when neither key is less and h < j.
StableOrder(n, less) ==
  LET rank == [j \in 1..n |->
                 Cardinality({h \in 1..n : \/ <<h, j>> \in less
                                           \/ h < j /\ <<j, h>> \notin less})]
  IN [at \in 1..n |-> CHOOSE j \in 1..n : rank[j] = at - 1]

\* sorted(fields, key=lambda x: (-x["presence_pct"], x["path"]))
SortFields(fields) ==
  LET n == Len(fields)
      order == StableOrder(n, {hj \in (1..n) \X (1..n) :
                                 SortKeyLess(fields[hj[1]], fields[hj[2]])})
  IN [at \in 1..n |-> fields[order[at]]]

(***************************************************************************)
(* Phase 2: categories                                                     *)
(***************************************************************************)
CategoryRow(name, icon, description, color) ==
  [name |-> name, icon |-> icon, description |-> description, color |-> color]

\* the rows of the source table for the categories of the lookup rows above;
\* an icon is written by its code points
FIELD_CATEGORIES == <<
  CategoryRow("Message Metadata", "U+1F4E8", "Stream message control and timing", "#6B7280"),
  CategoryRow("Market Identity", "U+1F3F7 U+FE0F", "Market identification fields", "#3B82F6"),
  CategoryRow("Market State", "U+1F504", "Current market status", "#10B981"),
  CategoryRow("Runner Identity", "U+1F3C7", "Horse/selection identification", "#06B6D4"),
  CategoryRow("Runner State", "U+1F3AF", "Runner status and results", "#22C55E"),
  CategoryRow("Price - Core", "U+1F4B2", "Core pricing data", "#EF4444"),
  CategoryRow("Order Book - Lay", "U+1F4D5", "Available to lay (sell)", "#EF4444"),
  CategoryRow("Bet Identity", "U+1F3AB", "Bet identification", "#8B5CF6"),
  CategoryRow("Bet Details", "U+1F4DD", "Bet parameters", "#14B8A6"),
  CategoryRow("Bet State", "U+26A1", "Bet status", "#F97316"),
  CategoryRow("Compliance", "U+1F6E1 U+FE0F", "Regulatory fields", "#64748B"),
  CategoryRow("Unknown", "U+2753", "Undocumented fields", "#9CA3AF")>>

\* FIELD_CATEGORIES.get(cat_name, FIELD_CATEGORIES.get("Unknown", ...))
CategoryInfo(cat_name) ==
  LET known == {j \in 1..Len(FIELD_CATEGORIES) : FIELD_CATEGORIES[j].name = cat_name}
      row == IF known # {} THEN CHOOSE j \in known : TRUE
             ELSE CHOOSE j \in 1..Len(FIELD_CATEGORIES) :
                    FIELD_CATEGORIES[j].name = "Unknown"
  IN FIELD_CATEGORIES[row]

\* the distinct values of a sequence in the order of their first occurrence:
\* the key order of a dict filled while the sequence is read
FirstSeen(values) ==
  LET keep == {j \in 1..Len(values) : \A h \in 1..(j - 1) : values[h] # values[j]}
  IN [n \in 1..Cardinality(keep) |->
        values[CHOOSE j \in keep : Cardinality({h \in keep : h <= j}) = n]]

CategoryField(field_data) ==
  [path |-> field_data.path, key |-> field_data.key, name |-> field_data.name,
   type |-> field_data.type, presence_pct |-> field_data.presence_pct,
   ml_relevance |-> field_data.ml_relevance]

FieldCategories(sorted_fields) ==
  LET names == FirstSeen([j \in 1..Len(sorted_fields) |-> sorted_fields[j].category])
  IN [c \in 1..Len(names) |->
        LET fields == SelectSeq(sorted_fields, LAMBDA f : f.category = names[c])
            cat_info == CategoryInfo(names[c])
        IN [category |-> names[c],
            icon |-> cat_info.icon,
            description |-> cat_info.description,
            color |-> cat_info.color,
            field_count |-> Len(fields),
            fields |-> [j \in 1..Len(fields) |-> CategoryField(fields[j])]]]

(***************************************************************************)
(* Phase 3: structure analysis                                             *)
(***************************************************************************)
HasChar(chars, c) == \E j \in 1..Len(chars) : chars[j] = c
DotPositions(path) == {j \in 1..Len(path) : path[j] = "."}
\* ".".join(parts[:i]) for i in 1..len(parts)-1: the text before each dot
NestedPrefixes(path) == {SubSeq(path, 1, j - 1) : j \in DotPositions(path)}
PathDepth(path) == Cardinality(DotPositions(path)) + 1
SetMax(S) == CHOOSE m \in S : \A x \in S : x <= m

TopLevelKeys(sorted_fields) ==
  LET top == SelectSeq(sorted_fields,
                       LAMBDA f : ~HasChar(f.path, ".") /\ ~HasChar(f.path, "["))
  IN [j \in 1..Len(top) |-> top[j].key]

(***************************************************************************)
(* Phase 4: value distributions                                            *)
(***************************************************************************)
DistributionSample == 10000
DistributionCap == 20

categorical_candidates ==
  {<<"o", "p">>,
   <<"s", "t", "a", "t", "u", "s">>,
   <<"m", "a", "r", "k", "e", "t", "T", "y", "p", "e">>,
   <<"b", "e", "t", "t", "i", "n", "g", "T", "y", "p", "e">>,
   <<"c", "o", "u", "n", "t", "r", "y", "C", "o", "d", "e">>,
   <<"v", "e", "n", "u", "e">>,
   <<"c", "t">>,
   <<"i", "n", "P", "l", "a", "y">>,
   <<"c", "o", "m", "p", "l", "e", "t", "e">>,
   <<"s", "i", "d", "e">>}

\* dict.get(key): the value, None when the key is missing
DictGet(d, key) ==
  IF \E j \in 1..Len(d.kv) : d.kv[j].k = key
  THEN d.kv[CHOOSE j \in 1..Len(d.kv) : d.kv[j].k = key].v
  ELSE JNull

\* str.replace(sub, new): every occurrence, left to right, without overlap
RECURSIVE Replace(_, _, _)
Replace(chars, sub, new) ==
  IF Len(chars) < Len(sub) THEN chars
  ELSE IF SubSeq(chars, 1, Len(sub)) = sub
  THEN new \o Replace(SubSeq(chars, Len(sub) + 1, Len(chars)), sub, new)
  ELSE <<Head(chars)>> \o Replace(Tail(chars), sub, new)

\* str.split("."): the pieces between the dots, empty pieces kept
RECURSIVE Split(_)
Split(chars) ==
  IF ~HasChar(chars, ".") THEN <<chars>>
  ELSE LET dot == CHOOSE j \in DotPositions(chars) :
                    \A h \in DotPositions(chars) : j <= h
       IN <<SubSeq(chars, 1, dot - 1)>> \o Split(SubSeq(chars, dot + 1, Len(chars)))

\* field_path.split(".")[-1].replace("[0]", "").replace("[1]", "").replace("[2]", "")
FieldKey(field_path) ==
  LET parts == Split(field_path)
  IN Replace(Replace(Replace(parts[Len(parts)],
                             <<"[", "0", "]">>, <<>>),
                     <<"[", "1", "]">>, <<>>),
             <<"[", "2", "]">>, <<>>)

\* str.strip() of blanks
RECURSIVE Strip(_)
Strip(chars) ==
  IF chars # <<>> /\ Head(chars) = " " THEN Strip(Tail(chars))
  ELSE IF chars # <<>> /\ chars[Len(chars)] = " "
  THEN Strip(SubSeq(chars, 1, Len(chars) - 1))
  ELSE chars

\* every text is taken for a number
IsIntText_Any(part) == TRUE
\* the texts int() accepts, over the characters in use: digits, with single
\* underscores between digits and blanks around them; any other text is a
\* ValueError
IsIntText(part) ==
  LET body == Strip(part)
  IN /\ body # <<>>
     /\ \A j \in 1..Len(body) :
          \/ IsDigit(body[j])
          \/ /\ body[j] = "_"
             /\ j > 1 /\ j < Len(body)
             /\ IsDigit(body[j - 1]) /\ IsDigit(body[j + 1])

RECURSIVE DecimalValue(_)
DecimalValue(digits) ==
  IF digits = <<>> THEN 0
  ELSE 10 * DecimalValue(SubSeq(digits, 1, Len(digits) - 1))
       + (Ord(digits[Len(digits)]) - Ord("0"))

IntOf(part) == DecimalValue(SelectSeq(part, IsDigit))

\* the loop over the parts of the path; None is JNull
RECURSIVE Descend(_, _, _)
Descend(current, parts, j) ==
  IF j > Len(parts) THEN current
  ELSE IF parts[j] = <<>> THEN Descend(current, parts, j + 1)
  ELSE IF IsDict(current) THEN Descend(DictGet(current, parts[j]), parts, j + 1)
  ELSE IF IsList(current)
  THEN IF IsIntText(parts[j]) /\ IntOf(parts[j]) < Len(current.kv)
       THEN Descend(current.kv[IntOf(parts[j]) + 1].v, parts, j + 1)
       ELSE JNull
  ELSE JNull

get_nested_value(obj, path) ==
  Descend(obj, Split(Replace(Replace(path, <<"[">>, <<".">>), <<"]">>, <<>>)), 1)

\* str(value) of a scalar that is not None; the numbers in use are not negative
Str(value) ==
  CASE value.t = "str" -> value.s
    [] value.t = "bool" -> IF value.n = 1 THEN <<"T", "r", "u", "e">>
                           ELSE <<"F", "a", "l", "s", "e">>
    [] value.t = "int" -> DecimalChars(value.n)
    [] value.t = "float" ->
         DecimalChars(value.n \div 10) \o <<".", DigitChar(value.n % 10)>>

\* the texts of the scalar values found at the path in the first records
CollectValues(recs, field_path) ==
  LET sample == SubSeq(recs, 1, Min(Len(recs), DistributionSample))
      found == [j \in 1..Len(sample) |-> get_nested_value(sample[j], field_path)]
      kept == SelectSeq(found, LAMBDA v : v # JNull /\ ~IsDict(v) /\ ~IsList(v))
  IN [j \in 1..Len(kept) |-> Str(kept[j])]

\* the key is the count itself
CountKeyLess_Rising(a, b) == a.count < b.count
\* the sort key -x[1]
CountKeyLess(a, b) == a.count > b.count
\* sorted(value_counts.items(), key=lambda x: -x[1])
SortCounts(counts) ==
  LET n == Len(counts)
      order == StableOrder(n, {hj \in (1..n) \X (1..n) :
                                 CountKeyLess(counts[hj[1]], counts[hj[2]])})
  IN [at \in 1..n |-> counts[order[at]]]

Distribution(field_path, field_name, values) ==
  LET distinct == FirstSeen(values)
      value_counts ==
        [j \in 1..Len(distinct) |->
           [value |-> distinct[j],
            count |-> Cardinality({h \in 1..Len(values) : values[h] = distinct[j]})]]
      sorted_counts == SubSeq(SortCounts(value_counts), 1,
                              Min(Len(value_counts), DistributionCap))
  IN [field |-> field_path,
      field_name |-> field_name,
      unique_values |-> Len(value_counts),
      sample_size |-> Len(values),
      distribution |->
        [j \in 1..Len(sorted_counts) |->
           [value |-> sorted_counts[j].value,
            count |-> sorted_counts[j].count,
            \* round((c / len(values)) * 100, 2), in hundredths
            pct |-> RoundHalfEven(10000 * sorted_counts[j].count, Len(values))]]]

\* one distribution per registry entry, in registry order, whose key is a
\* candidate and that has a scalar value in some record
ValueDistributions(registry, recs) ==
  LET chosen == SelectSeq(registry,
                  LAMBDA e : /\ FieldKey(e.path) \in categorical_candidates
                             /\ CollectValues(recs, e.path) # <<>>)
  IN [j \in 1..Len(chosen) |->
        Distribution(chosen[j].path, chosen[j].name,
                     CollectValues(recs, chosen[j].path))]

(***************************************************************************)
(* Phase 5: temporal analysis                                              *)
(***************************************************************************)
\* the pt of every record whose pt is truthy, in batch order
CollectTimestamps(recs) ==
  SelectSeq([j \in 1..Len(recs) |-> DictGet(recs[j], K_pt)], Truthy)

\* list.sort() on numbers: stable, ascending
SortNumbers(vs) ==
  LET n == Len(vs)
      order == StableOrder(n, {hj \in (1..n) \X (1..n) :
                                 Tenths(vs[hj[1]]) < Tenths(vs[hj[2]])})
  IN [at \in 1..n |-> vs[order[at]]]

\* a - b on numbers: an int unless a float takes part
Minus(a, b) ==
  IF a.t = "float" \/ b.t = "float" THEN JFloat(Tenths(a) - Tenths(b))
  ELSE JInt(a.n - b.n)

\* f"{x}" of the whole number n held as an int or as a float
NumberText(n, is_float) ==
  StrOf(DecimalChars(n)) \o (IF is_float THEN ".0" ELSE "")

format_duration(ms) ==
  LET is_float == ms.t = "float"
      total_seconds == Tenths(ms) \div 10000
      seconds == total_seconds % 60
      total_minutes == total_seconds \div 60
      minutes == total_minutes % 60
      hours == total_minutes \div 60
  IN IF hours > 0
     THEN NumberText(hours, is_float) \o "h " \o NumberText(minutes, is_float)
          \o "m " \o NumberText(seconds, is_float) \o "s"
     ELSE IF minutes > 0
     THEN NumberText(minutes, is_float) \o "m " \o NumberText(seconds, is_float) \o "s"
     ELSE NumberText(seconds, is_float) \o "s"

TemporalAnalysis(ts) ==
  LET n == Len(ts)
      span == Minus(ts[n], ts[1])
  IN [timestamp_field |-> "pt (Publish Time)",
      first_timestamp |-> ts[1],
      last_timestamp |-> ts[n],
      duration_ms |-> IF n > 1 THEN span ELSE JInt(0),
      duration_readable |-> IF n > 1 THEN format_duration(span) ELSE "N/A",
      total_timestamps |-> n,
      avg_interval_ms |-> IF n > 1 THEN RoundHalfEven(Tenths(span), 10 * n) ELSE 0]

(***************************************************************************)
(* Phase 6: example records                                                *)
(***************************************************************************)
ExampleScan == 1000

HasKey(d, key) == \E j \in 1..Len(d.kv) : d.kv[j].k = key

\* the keys that count as price fields
PriceKeys == {K_ltp, <<"b", "a", "t", "b">>, <<"b", "a", "t", "l">>, <<"t", "r", "d">>}

\* mc is a non-empty list with an object that has the key marketDefinition
WithMarketDefinition(record) ==
  LET mc == DictGet(record, K_mc)
  IN /\ Truthy(mc) /\ IsList(mc)
     /\ \E j \in 1..Len(mc.kv) :
          IsDict(mc.kv[j].v) /\ HasKey(mc.kv[j].v, K_marketDefinition)

\* mc is a non-empty list with an object whose rc is a non-empty list with an
\* object that has a price key
WithPriceData(record) ==
  LET mc == DictGet(record, K_mc)
  IN /\ Truthy(mc) /\ IsList(mc)
     /\ \E j \in 1..Len(mc.kv) :
          /\ IsDict(mc.kv[j].v) /\ HasKey(mc.kv[j].v, K_rc)
          /\ LET rc == DictGet(mc.kv[j].v, K_rc)
             IN /\ Truthy(rc) /\ IsList(rc)
                /\ \E h \in 1..Len(rc.kv) :
                     /\ IsDict(rc.kv[h].v)
                     /\ \E k \in PriceKeys : HasKey(rc.kv[h].v, k)

\* the last passing record is taken
FirstExample_Last(scanned, passing, label) ==
  IF passing = {} THEN <<>>
  ELSE <<[example |-> label,
          record |-> scanned[CHOOSE j \in passing : \A h \in passing : j >= h]]>>
\* the first of the scanned records whose index is in passing, as a list of
\* 0 or 1 entries
FirstExample(scanned, passing, label) ==
  IF passing = {} THEN <<>>
  ELSE <<[example |-> label,
          record |-> scanned[CHOOSE j \in passing : \A h \in passing : j <= h]]>>

\* the examples dict, in insertion order
Examples(recs) ==
  LET scanned == SubSeq(recs, 1, Min(Len(recs), ExampleScan))
  IN <<[example |-> "first_record", record |-> recs[1]]>>
     \o FirstExample(scanned,
                     {j \in 1..Len(scanned) : WithMarketDefinition(scanned[j])},
                     "with_market_definition")
     \o FirstExample(scanned,
                     {j \in 1..Len(scanned) : WithPriceData(scanned[j])},
                     "with_price_data")

(***************************************************************************)
(* Phase 7: data quality                                                   *)
(***************************************************************************)
Paths(fields) == [j \in 1..Len(fields) |-> fields[j].path]

DataQuality(sorted_fields, total) ==
  LET always_present == SelectSeq(sorted_fields, LAMBDA f : f.presence_pct = 10000)
      mostly_present == SelectSeq(sorted_fields,
                          LAMBDA f : 9500 <= f.presence_pct /\ f.presence_pct < 10000)
      sometimes_present == SelectSeq(sorted_fields,
                          LAMBDA f : 5000 <= f.presence_pct /\ f.presence_pct < 9500)
      rarely_present == SelectSeq(sorted_fields, LAMBDA f : f.presence_pct < 5000)
  IN [completeness |->
        [always_present |-> Len(always_present),
         mostly_present |-> Len(mostly_present),
         sometimes_present |-> Len(sometimes_present),
         rarely_present |-> Len(rarely_present)],
      field_summary |->
        [always_present_fields |-> Paths(always_present),
         rarely_present_fields |->
           Paths(SubSeq(rarely_present, 1, Min(Len(rarely_present), RareCap)))],
      record_count |-> total,
      unique_field_paths |-> Len(sorted_fields)]

(***************************************************************************)
(* Phase 8: schema recommendations                                         *)
(***************************************************************************)
\* Python's `sub in text` on str
Contains(sub, text) ==
  \E j \in 0..(Len(text) - Len(sub)) : SubSeq(text, j + 1, j + Len(sub)) = sub

infer_bq_type(python_type, sample_values) ==
  IF Contains(<<"i", "n", "t">>, python_type) THEN "INT64"
  ELSE IF Contains(<<"f", "l", "o", "a", "t">>, python_type) THEN "FLOAT64"
  ELSE IF Contains(<<"b", "o", "o", "l">>, python_type) THEN "BOOL"
  ELSE IF Contains(W_array, python_type)
  THEN IF Contains(W_object, python_type) THEN "RECORD"
       ELSE IF Contains(W_array, python_type) THEN "STRING"
       ELSE "ARRAY<STRING>"
  ELSE IF Contains(<<"d", "i", "c", "t">>, python_type) THEN "RECORD"
  ELSE IF sample_values # <<>> /\ sample_values[1].t = "bool" THEN "BOOL"
  ELSE IF sample_values # <<>> /\ sample_values[1].t = "int" THEN "INT64"
  ELSE IF sample_values # <<>> /\ sample_values[1].t = "float" THEN "FLOAT64"
  ELSE "STRING"

\* re.sub(r'[\.\[\]]', '_', path)
ReplaceSeparators(chars) ==
  [j \in 1..Len(chars) |-> IF chars[j] \in {".", "[", "]"} THEN "_" ELSE chars[j]]
\* re.sub(r'_+', '_', name)
RECURSIVE CollapseUnderscores(_)
CollapseUnderscores(chars) ==
  IF Len(chars) <= 1 THEN chars
  ELSE IF chars[1] = "_" /\ chars[2] = "_" THEN CollapseUnderscores(Tail(chars))
  ELSE <<chars[1]>> \o CollapseUnderscores(Tail(chars))
\* name.strip('_')
RECURSIVE StripUnderscores(_)
StripUnderscores(chars) ==
  IF chars = <<>> THEN chars
  ELSE IF chars[1] = "_" THEN StripUnderscores(Tail(chars))
  ELSE IF chars[Len(chars)] = "_"
  THEN StripUnderscores(SubSeq(chars, 1, Len(chars) - 1))
  ELSE chars

sanitize_bq_field_name(path) ==
  LET stripped == StripUnderscores(CollapseUnderscores(ReplaceSeparators(path)))
      name == IF stripped # <<>> /\ ~IsAlpha(stripped[1])
              THEN <<"f", "_">> \o stripped
              ELSE stripped
  IN SubSeq(name, 1, Min(Len(name), NameCap))

SchemaColumn(field_data) ==
  [name |-> sanitize_bq_field_name(field_data.path),
   type |-> infer_bq_type(field_data.type, field_data.sample_values),
   mode |-> IF field_data.presence_pct = 10000 THEN "REQUIRED" ELSE "NULLABLE",
   description |-> field_data.description,
   source_path |-> field_data.path]

\* the loop that builds bq_schema
BqSchema(sorted_fields) ==
  LET common == SelectSeq(sorted_fields, LAMBDA f : f.presence_pct >= 5000)
  IN [j \in 1..Len(common) |-> SchemaColumn(common[j])]

\* the list is not cut
SchemaRecommendations_Uncut(sorted_fields) ==
  [bigquery_schema |-> BqSchema(sorted_fields),
   notes |-> <<"Schema based on fields present in >=50% of records",
               "Nested fields flattened with underscore separators",
               "Array fields may need additional handling">>]
SchemaRecommendations(sorted_fields) ==
  LET bq_schema == BqSchema(sorted_fields)
  IN [bigquery_schema |-> SubSeq(bq_schema, 1, Min(Len(bq_schema), SchemaCap)),
      notes |-> <<"Schema based on fields present in >=50% of records",
                  "Nested fields flattened with underscore separators",
                  "Array fields may need additional handling">>]

(***************************************************************************)
(* Phase 9: model suggestions (the hardcoded ones)                         *)
(***************************************************************************)
TimeSeriesMin == 100

\* any(word in f["path"] for f in sorted_fields)
AnyPathHas(sorted_fields, word) ==
  \E j \in 1..Len(sorted_fields) : Contains(word, sorted_fields[j].path)

PriceMovement ==
  [model_type |-> "Price Movement Prediction",
   approach |-> "LSTM / Transformer",
   description |-> "Predict price direction using time-series of ltp, batb, batl",
   key_features |-> <<"ltp", "batb", "batl", "tv">>,
   target |-> "Price direction (up/down) or price at T+n",
   complexity |-> "High"]
Microstructure ==
  [model_type |-> "Market Microstructure Analysis",
   approach |-> "Gradient Boosting (XGBoost/LightGBM)",
   description |-> "Analyze order book dynamics and trading patterns",
   key_features |-> <<"batb", "batl", "trd", "tv", "spread">>,
   target |-> "Execution quality, market impact",
   complexity |-> "Medium"]
HeatMap ==
  [model_type |-> "Visual Price Patterns (Heat Map CNN)",
   approach |-> "Convolutional Neural Network",
   description |-> "Convert price ladders to images using Gramian Angular Field encoding",
   key_features |-> <<"batb", "batl", "ltp time series">>,
   target |-> "Pattern classification, price prediction",
   complexity |-> "High",
   note |-> "Novel approach with potential 40%+ improvement over traditional ML"]
MarketClassification ==
  [model_type |-> "Market Classification",
   approach |-> "Random Forest / Neural Network",
   description |-> "Classify market types, predict liquidity",
   key_features |-> <<"marketType", "numberOfActiveRunners", "venue", "countryCode">>,
   target |-> "Market category, expected volume",
   complexity |-> "Low"]

MlSuggestions(sorted_fields, ts) ==
  LET batb == <<"b", "a", "t", "b">>
      batl == <<"b", "a", "t", "l">>
      trd == <<"t", "r", "d">>
      tv == <<"t", "v">>
      has_prices == AnyPathHas(sorted_fields, K_ltp) \/ AnyPathHas(sorted_fields, batb)
      has_volume == AnyPathHas(sorted_fields, tv) \/ AnyPathHas(sorted_fields, trd)
      has_time_series == Len(ts) > TimeSeriesMin
      has_market_definition == AnyPathHas(sorted_fields, K_marketDefinition)
  IN (IF has_prices /\ has_time_series THEN <<PriceMovement>> ELSE <<>>)
     \o (IF has_prices /\ has_volume THEN <<Microstructure>> ELSE <<>>)
     \o (IF has_prices THEN <<HeatMap>> ELSE <<>>)
     \o (IF has_market_definition THEN <<MarketClassification>> ELSE <<>>)

(***************************************************************************)
(* The batches                                                             *)
(***************************************************************************)
\* {"pt": t, "mc": [{"id": "1.1", "rc": [{"id": 7, "ltp": 2.5}]}]}
FullMessage(t) ==
  JDict(<<Item(K_pt, JInt(t)),
          Item(K_mc, JList(<<JDict(<<
            Item(K_id, JStr(<<"1", ".", "1">>)),
            Item(K_rc, JList(<<JDict(<<Item(K_id, JInt(7)),
                                       Item(K_ltp, JFloat(25))>>)>>))>>)>>))>>)
RecFull == FullMessage(1000)
\* {"pt": 1009, "status": 503,
\*  "mc": [{"id": "1.1", "marketDefinition": {}, "rc": [{"id": 7}]}]}
RecNoLtp ==
  JDict(<<Item(K_pt, JInt(1009)),
          Item(K_status, JInt(503)),
          Item(K_mc, JList(<<JDict(<<
            Item(K_id, JStr(<<"1", ".", "1">>)),
            Item(K_marketDefinition, JDict(<<>>)),
            Item(K_rc, JList(<<JDict(<<Item(K_id, JInt(7))>>)>>))>>)>>))>>)
\* {"mc.id": 1, "mc": {"id": "x"}}: two ways to the path mc.id
RecDotted ==
  JDict(<<Item(K_mc_id, JInt(1)),
          Item(K_mc, JDict(<<Item(K_id, JStr(<<"x">>))>>))>>)
\* {"mc": [{"rc.id": 1, "rc": {"id": 1}}]}: mc[0].rc.id under context mc and
\* under context rc
RecTwoContexts ==
  JDict(<<Item(K_mc, JList(<<JDict(<<
            Item(K_rc_id, JInt(1)),
            Item(K_rc, JDict(<<Item(K_id, JInt(1))>>))>>)>>))>>)
\* {"mc": [], "id": null}
RecEmptyMc == JDict(<<Item(K_mc, JList(<<>>)), Item(K_id, JNull)>>)
\* {"id": "s", "a": [1, 2, 3, 4], "pt": "t"}
RecOtherTypes ==
  JDict(<<Item(K_id, JStr(<<"s">>)),
          Item(K_a, JList(<<JInt(1), JInt(2), JInt(3), JInt(4)>>)),
          Item(K_pt, JStr(<<"t">>))>>)
\* {"a": [0, 0, 0, 0, 0, 0, 0, 0, 0, 0], "a b": {}}
RecLongArray ==
  JDict(<<Item(K_a, JList([j \in 1..SampleMaxList |-> JInt(0)])),
          Item(K_a_b, JDict(<<>>))>>)
\* records that are not objects
RecScalar == JInt(5)
RecArray == JList(<<JDict(<<Item(K_id, JInt(1))>>)>>)
\* {"k0": 1, "k1": 1, ..., "k<n-1>": 1}
WideRecord(n) ==
  JDict([j \in 1..n |-> Item(<<"k">> \o DecimalChars(j - 1), JInt(1))])

\* {"a": [7, {"id": 1}, {"id": 2}, {"ltp": 2.5}]}: an array with a scalar
\* among its first elements and an object past them
RecMixedArray ==
  JDict(<<Item(K_a, JList(<<JInt(7), JDict(<<Item(K_id, JInt(1))>>),
                            JDict(<<Item(K_id, JInt(2))>>),
                            JDict(<<Item(K_ltp, JFloat(25))>>)>>))>>)

\* {"mc": [{"rc": [{"batl": [[0, 2.5, 10]]}]}]}: a lay ladder and nothing else
RecLadder ==
  JDict(<<Item(K_mc, JList(<<JDict(<<
            Item(K_rc, JList(<<JDict(<<
              Item(K_batl, JList(<<JList(<<JInt(0), JFloat(25), JInt(10)>>)>>))>>)>>))>>)>>))>>)

\* {"mc_id": 1, "mc": {"id": "x"}}: the paths mc_id and mc.id
RecUnderscore ==
  JDict(<<Item(K_mc__id, JInt(1)),
          Item(K_mc, JDict(<<Item(K_id, JStr(<<"x">>))>>))>>)

Plain ==
  {RecFull, RecNoLtp, RecDotted, RecTwoContexts, RecEmptyMc, RecOtherTypes,
   RecLongArray, RecScalar, RecArray}
Wide == {WideRecord(RareCap + 1), WideRecord(SchemaCap + 1)}
\* records of other shapes
Shapes == {RecMixedArray, RecLadder, RecUnderscore}

\* an object {"id": 1} below n levels of {"a": ...}, or of {"a": [...]}
RECURSIVE Nest(_, _)
Nest(n, in_arrays) ==
  IF n = 0 THEN JDict(<<Item(K_id, JInt(1))>>)
  ELSE JDict(<<Item(K_a, IF in_arrays THEN JList(<<Nest(n - 1, in_arrays)>>)
                         ELSE Nest(n - 1, in_arrays))>>)
\* records nested about as deep as the walker goes, alone or in pairs
DeepRecords == {Nest(n, in_arrays) : n \in (max_depth - 1)..MaxNest, in_arrays \in BOOLEAN}
DeepBatches == {<<r1>> : r1 \in DeepRecords} \cup {<<r1, r2>> : r1, r2 \in DeepRecords}

\* {"mc": [{"status": v}]}
StatusMessage(v) ==
  JDict(<<Item(K_mc, JList(<<JDict(<<Item(K_status, v)>>)>>))>>)
V_OPEN == JStr(<<"O", "P", "E", "N">>)
V_SUSPENDED == JStr(<<"S", "U", "S", "P", "E", "N", "D", "E", "D">>)
\* the status values of a run of status messages: two markets open and one
\* suspended, in two orders; a null and an object among the values; no scalar
\* at all; one more distinct value than a distribution lists, the last one
\* twice
StatusRuns ==
  {<<V_OPEN, V_OPEN, V_SUSPENDED>>,
   <<V_SUSPENDED, V_OPEN, V_OPEN>>,
   <<V_OPEN, JNull, JDict(<<Item(K_id, JInt(1))>>)>>,
   <<JNull, JDict(<<Item(K_id, JInt(1))>>)>>,
   [j \in 1..(DistributionCap + 2) |-> JInt(Min(j, DistributionCap + 1))]}

Repeat(r, n) == [j \in 1..n |-> r]
\* n full messages published 1 ms apart from time start on, in order of
\* publication or in the reverse order
Stream(start, n, in_order) ==
  [j \in 1..n |-> FullMessage(IF in_order THEN start + j - 1 ELSE start + n - j)]
StreamStarts == {0, 1000}
\* a run of one record, followed by nothing or by one more record; a long run
\* of the full message followed by a short run; a stream of full messages;
\* a run of status messages, followed by nothing or by one more record; a
\* record of another shape, alone, twice, or followed by the full message
Batches ==
  {Repeat(r1, n1) \o last :
     r1 \in Plain, n1 \in 0..MaxRun,
     last \in {<<>>} \cup {<<r2>> : r2 \in Plain \cup Wide}}
  \cup {Repeat(RecFull, BulkRun) \o Repeat(r2, n2) : r2 \in Plain, n2 \in 0..MaxRun}
  \cup {Stream(start, n, in_order) :
          start \in StreamStarts, n \in 2..MaxStream, in_order \in BOOLEAN}
  \cup {[j \in 1..Len(vs) |-> StatusMessage(vs[j])] \o last :
          vs \in StatusRuns, last \in {<<>>} \cup {<<r2>> : r2 \in Plain}}
  \cup UNION {{<<r1>>, <<r1, r1>>, <<r1, RecFull>>} : r1 \in Shapes}

(***************************************************************************)
(* analyze_records as a state machine                                      *)
(***************************************************************************)
NoResults == <<>>
\* no response sent yet
NoResponse == [code |-> 0]
NotRun == [pc |-> "none", exception |-> "", results |-> NoResults]

Init ==
  /\ records \in Batches
  /\ run = 1
  /\ pc = "start"
  /\ i = 0
  /\ todo = <<>>
  /\ field_registry = <<>>
  /\ results = NoResults
  /\ timestamps = <<>>
  /\ exception = ""
  /\ first = NotRun
  /\ job_status = <<>> /\ task = <<>> /\ response = NoResponse

ResultsShell(recs) ==
  [total_records |-> Len(recs),
   discovered_fields |-> <<>>,
   field_categories |-> <<>>,
   structure_analysis |-> <<>>,
   value_distributions |-> <<>>,
   temporal_analysis |-> <<>>,
   examples |-> <<>>,
   data_quality |-> <<>>,
   schema_recommendations |-> <<>>,
   ml_suggestions |-> <<>>]

\* the report shell; an empty batch returns it at once
\* the walk starts whatever the batch
AfterShell_NoShortCut(recs) == "walk"
\* if not records: return results
AfterShell(recs) == IF recs = <<>> THEN "done" ELSE "walk"

Start ==
  /\ pc = "start"
  /\ results' = ResultsShell(records)
  /\ field_registry' = <<>>
  /\ i' = 0
  /\ todo' = <<>>
  /\ pc' = AfterShell(records)
  /\ UNCHANGED <<records, run, timestamps, exception, first>>
  /\ UNCHANGED jvars

\* for i, record in enumerate(records): the walk of the next record begins
NextRecord ==
  /\ pc = "walk"
  /\ todo = <<>>
  /\ IF i < Len(records)
     THEN /\ i' = i + 1
          /\ todo' = discover_fields_recursive(records[i + 1], <<>>, 0, NONE)
          /\ pc' = pc
     ELSE /\ pc' = "post"
          /\ UNCHANGED <<i, todo>>
  /\ UNCHANGED <<records, run, field_registry, results, timestamps, exception, first>>
  /\ UNCHANGED jvars

\* one iteration of the walker's loop over the keys of a mapping
WalkStep ==
  /\ pc = "walk"
  /\ todo # <<>>
  /\ field_registry' = Register(field_registry, Head(todo))
  /\ todo' = Tail(todo)
  /\ UNCHANGED <<records, run, pc, i, results, timestamps, exception, first>>
  /\ UNCHANGED jvars

\* contexts to lists, presence percentages, the sort
PostPass ==
  /\ pc = "post"
  /\ \E lists \in ContextLists(field_registry, 1, Len(field_registry)) :
       /\ field_registry' =
            [j \in 1..Len(field_registry) |->
               FinalEntry(field_registry[j], lists[j], Len(records))]
       /\ results' = [results EXCEPT !.discovered_fields = SortFields(field_registry')]
  /\ pc' = "phase2"
  /\ UNCHANGED <<records, run, i, todo, timestamps, exception, first>>
  /\ UNCHANGED jvars

Phase2 ==
  /\ pc = "phase2"
  /\ results' = [results EXCEPT !.field_categories =
                   FieldCategories(results.discovered_fields)]
  /\ pc' = "phase3"
  /\ UNCHANGED <<records, run, i, todo, field_registry, timestamps, exception, first>>
  /\ UNCHANGED jvars

Phase3 ==
  /\ pc = "phase3"
  /\ LET sorted_fields == results.discovered_fields
         nested_paths == UNION {NestedPrefixes(sorted_fields[j].path) :
                                  j \in 1..Len(sorted_fields)}
     IN \E nested_structures \in Orderings(nested_paths) :
          results' = [results EXCEPT !.structure_analysis =
            [top_level_fields |-> TopLevelKeys(sorted_fields),
             nested_structures |-> nested_structures,
             max_depth |-> IF sorted_fields # <<>>
                           THEN SetMax({PathDepth(sorted_fields[j].path) :
                                          j \in 1..Len(sorted_fields)})
                           ELSE 0,
             total_unique_paths |-> Len(sorted_fields)]]
  /\ pc' = "phase4"
  /\ UNCHANGED <<records, run, i, todo, field_registry, timestamps, exception, first>>
  /\ UNCHANGED jvars

Phase4 ==
  /\ pc = "phase4"
  /\ results' = [results EXCEPT !.value_distributions =
                   ValueDistributions(field_registry, records)]
  /\ pc' = "phase5"
  /\ UNCHANGED <<records, run, i, todo, field_registry, timestamps, exception, first>>
  /\ UNCHANGED jvars

Raise(exc) ==
  /\ pc' = "raised"
  /\ exception' = exc
  /\ UNCHANGED <<records, run, i, todo, field_registry, results, timestamps, first>>

Phase5 ==
  /\ pc = "phase5"
  /\ IF \E j \in 1..Len(records) : ~IsDict(records[j])
     THEN \* record.get on a value that is no dict
          Raise("AttributeError")
     ELSE LET collected == CollectTimestamps(records)
          IN IF Len(collected) > 1 /\ \E j \in 1..Len(collected) : ~IsNumber(collected[j])
             THEN \* sort() across types, or `-` on values that are no numbers
                  Raise("TypeError")
             ELSE /\ timestamps' = SortNumbers(collected)
                  /\ results' = IF collected # <<>>
                                THEN [results EXCEPT !.temporal_analysis =
                                        TemporalAnalysis(timestamps')]
                                ELSE results
                  /\ pc' = "phase6"
                  /\ UNCHANGED <<records, run, i, todo, field_registry, exception, first>>
  /\ UNCHANGED jvars

Phase6 ==
  /\ pc = "phase6"
  /\ results' = [results EXCEPT !.examples = Examples(records)]
  /\ pc' = "phase7"
  /\ UNCHANGED <<records, run, i, todo, field_registry, timestamps, exception, first>>
  /\ UNCHANGED jvars

Phase7 ==
  /\ pc = "phase7"
  /\ results' = [results EXCEPT !.data_quality =
                   DataQuality(results.discovered_fields, Len(records))]
  /\ pc' = "phase8"
  /\ UNCHANGED <<records, run, i, todo, field_registry, timestamps, exception, first>>
  /\ UNCHANGED jvars

Phase8 ==
  /\ pc = "phase8"
  /\ results' = [results EXCEPT !.schema_recommendations =
                   SchemaRecommendations(results.discovered_fields)]
  /\ pc' = "phase9"
  /\ UNCHANGED <<records, run, i, todo, field_registry, timestamps, exception, first>>
  /\ UNCHANGED jvars

Phase9 ==
  /\ pc = "phase9"
  /\ results' = [results EXCEPT !.ml_suggestions =
                   MlSuggestions(results.discovered_fields, timestamps)]
  /\ pc' = "done"
  /\ UNCHANGED <<records, run, i, todo, field_registry, timestamps, exception, first>>
  /\ UNCHANGED jvars

\* the pipeline is run again on the same batch, in a fresh process
Rerun ==
  /\ run = 1
  /\ pc \in {"done", "raised"}
  /\ first' = [pc |-> pc, exception |-> exception, results |-> results]
  /\ run' = 2
  /\ pc' = "start"
  /\ i' = 0
  /\ todo' = <<>>
  /\ field_registry' = <<>>
  /\ results' = NoResults
  /\ timestamps' = <<>>
  /\ exception' = ""
  /\ UNCHANGED records
  /\ UNCHANGED jvars

Next ==
  \/ Start
  \/ NextRecord
  \/ WalkStep
  \/ PostPass
  \/ Phase2
  \/ Phase3
  \/ Phase4
  \/ Phase5
  \/ Phase6
  \/ Phase7
  \/ Phase8
  \/ Phase9
  \/ Rerun

Spec == Init /\ [][Next]_vars

(***************************************************************************)
(* Phase 1 alone, on deeply nested records                                 *)
(***************************************************************************)
InitWalker ==
  /\ records \in DeepBatches
  /\ run = 1
  /\ pc = "start"
  /\ i = 0
  /\ todo = <<>>
  /\ field_registry = <<>>
  /\ results = NoResults
  /\ timestamps = <<>>
  /\ exception = ""
  /\ first = NotRun
  /\ job_status = <<>> /\ task = <<>> /\ response = NoResponse

NextWalker ==
  \/ Start
  \/ NextRecord
  \/ WalkStep

SpecWalker == InitWalker /\ [][NextWalker]_vars

(***************************************************************************)
(* The server (src/backend/main.py): the job table job_status, POST        *)
(* /analyze, the background task run_analysis_task and GET                 *)
(* /status/{job_id}.  A job id is a fresh uuid; the jobs are numbered in   *)
(* the order of their requests, so job_status is a sequence and a job is   *)
(* in the table when its number is at most Len(job_status); 0 is an id     *)
(* the server never issued.  A job record is a dict: a function from the   *)
(* keys it holds.  Its time stamps are left out.  The background task is   *)
(* cut at its two calls out of the module, analyze_records and             *)
(* save_session; the assignments between two calls are one step.           *)
(***************************************************************************)
ACTIVE_PLUGIN == "betfair"
BucketUrls == {"gs://bucket/a", "gs://bucket/b"}
\* generate_session_id: a fresh id per request
SessionId(job_id) == "sess-" \o ToString(job_id)
\* what analyze_records may return to the task
AnalysisResults == {ResultsShell(<<>>)}
\* str(e) of the exceptions the task catches
AnalysisError == "analysis failed"
SaveError == "save failed"

\* d[k] = v of a dict
PutKey(d, k, v) == (k :> v) @@ d
\* d.get(k, default)
GetKey(d, k, default) == IF k \in DOMAIN d THEN d[k] ELSE default

\* the record POST /analyze enters in the table
NewJob(bucket_url, create_session, session_id) ==
  [status |-> "submitted",
   message |-> "Analysis job submitted",
   progress |-> 0,
   bucket_url |-> bucket_url,
   create_session |-> create_session,
   session_id |-> session_id,
   plugin_id |-> ACTIVE_PLUGIN]

\* the task's local state: where it stands and the result it holds
NoTask == [at |-> "none", result |-> NoResults]
Queued == [at |-> "queued", result |-> NoResults]

\* POST /analyze.  With use_batch the handler imports launch_batch_job from
\* batch_launcher, which defines submit_batch_job and get_job_status only:
\* the import raises, the handler answers 500 and no task is queued.
Analyze(bucket_url, use_batch, create_session) ==
  LET job_id == Len(job_status) + 1
      session_id == IF create_session THEN SessionId(job_id) ELSE NONE
  IN /\ Len(job_status) < MaxJobs
     /\ job_status' = Append(job_status,
                             NewJob(bucket_url, create_session, session_id))
     /\ IF use_batch
          THEN /\ task' = Append(task, NoTask)
               /\ response' = [code |-> 500,
                               detail |-> "Failed to launch batch job"]
          ELSE /\ task' = Append(task, Queued)
               /\ response' = [code |-> 200,
                               type |-> "submitted",
                               job_id |-> job_id,
                               session_id |-> session_id,
                               plugin_id |-> ACTIVE_PLUGIN,
                               message |-> "Analysis started"]
     /\ UNCHANGED avars

\* run_analysis_task up to its call of analyze_records
Running(job) ==
  [job EXCEPT !.status = "running",
              !.message = "Loading data (using plugin: betfair)...",
              !.progress = 10]

\* the except branch of the task
Failed(job, e) ==
  PutKey([job EXCEPT !.status = "error", !.message = e], "error", e)

\* the task between analyze_records and save_session
Saving(job) ==
  [job EXCEPT !.message = "Saving session...", !.progress = 90]

\* the last assignments of the try block
Complete(job, result) ==
  PutKey([job EXCEPT !.status = "complete",
                     !.message = "Analysis complete",
                     !.progress = 100],
         "result", result)

\* the task after save_session returned (saved) or raised
AfterSave_FailureIsError(job, saved, result) ==
  IF saved
    THEN Complete(PutKey(job, "session_saved", TRUE), result)
    ELSE Failed(PutKey(job, "session_saved", FALSE), SaveError)

AfterSave(job, saved, result) ==
  IF saved
    THEN Complete(PutKey(job, "session_saved", TRUE), result)
    ELSE Complete(PutKey(PutKey(job, "session_saved", FALSE),
                         "session_error", SaveError),
                  result)

TaskStart(j) ==
  /\ j \in 1..Len(job_status)
  /\ task[j].at = "queued"
  /\ job_status' = [job_status EXCEPT ![j] = Running(@)]
  /\ task' = [task EXCEPT ![j].at = "analysing"]
  /\ UNCHANGED response
  /\ UNCHANGED avars

\* analyze_records raises, or returns a result
AnalysisDone(j) ==
  /\ j \in 1..Len(job_status)
  /\ task[j].at = "analysing"
  /\ \/ /\ job_status' = [job_status EXCEPT ![j] = Failed(@, AnalysisError)]
        /\ task' = [task EXCEPT ![j].at = "done"]
     \/ \E result \in AnalysisResults :
          IF job_status[j].create_session /\ job_status[j].session_id # NONE
            THEN /\ job_status' = [job_status EXCEPT ![j] = Saving(@)]
                 /\ task' = [task EXCEPT ![j] = [at |-> "saving",
                                                 result |-> result]]
            ELSE /\ job_status' = [job_status EXCEPT
                                     ![j] = Complete(@, result)]
                 /\ task' = [task EXCEPT ![j] = [at |-> "done",
                                                 result |-> result]]
  /\ UNCHANGED response
  /\ UNCHANGED avars

\* save_session returns or raises
SaveDone(j) ==
  /\ j \in 1..Len(job_status)
  /\ task[j].at = "saving"
  /\ \E saved \in BOOLEAN :
       job_status' = [job_status EXCEPT
                        ![j] = AfterSave(@, saved, task[j].result)]
  /\ task' = [task EXCEPT ![j].at = "done"]
  /\ UNCHANGED response
  /\ UNCHANGED avars

\* the body GET /status/{job_id} answers for a job of the table
StatusResponse(job_id, status) ==
  LET base == [code |-> 200,
               job_id |-> job_id,
               status |-> status.status,
               message |-> GetKey(status, "message", NONE),
               progress |-> GetKey(status, "progress", NONE),
               session_id |-> GetKey(status, "session_id", NONE),
               source_url |-> GetKey(status, "bucket_url", NONE)]
      done == IF status.status = "complete"
                THEN PutKey(PutKey(base, "result",
                                   GetKey(status, "result", NoResults)),
                            "session_saved",
                            GetKey(status, "session_saved", FALSE))
                ELSE base
  IN IF status.status = "error"
       THEN PutKey(done, "error", GetKey(status, "error", NONE))
       ELSE done

\* GET /status/{job_id}.  For an id that is not in the table the handler
\* looks for a stored result and answers 404 when there is none.
GetStatus(job_id) ==
  /\ job_id \in 0..Len(job_status)
  /\ IF job_id \notin 1..Len(job_status)
       THEN \/ \E result \in AnalysisResults :
                 response' = [code |-> 200,
                              status |-> "complete",
                              job_id |-> job_id,
                              result |-> result]
            \/ response' = [code |-> 404, detail |-> "Job not found"]
       ELSE response' = StatusResponse(job_id, job_status[job_id])
  /\ UNCHANGED <<job_status, task>>
  /\ UNCHANGED avars

\* the server starts with an empty table
InitJobs ==
  /\ records = <<>>
  /\ run = 1
  /\ pc = "start"
  /\ i = 0
  /\ todo = <<>>
  /\ field_registry = <<>>
  /\ results = NoResults
  /\ timestamps = <<>>
  /\ exception = ""
  /\ first = NotRun
  /\ job_status = <<>> /\ task = <<>> /\ response = NoResponse

NextJobs ==
  \/ \E bucket_url \in BucketUrls, use_batch \in BOOLEAN,
        create_session \in BOOLEAN :
       Analyze(bucket_url, use_batch, create_session)
  \/ \E j \in 1..MaxJobs : TaskStart(j)
  \/ \E j \in 1..MaxJobs : AnalysisDone(j)
  \/ \E j \in 1..MaxJobs : SaveDone(j)
  \/ \E job_id \in 0..MaxJobs : GetStatus(job_id)

\* Starlette runs a queued background task once the response is sent, and
\* the calls the task makes return or raise
Fairness ==
  \A j \in 1..MaxJobs :
    /\ WF_vars(TaskStart(j))
    /\ WF_vars(AnalysisDone(j))
    /\ WF_vars(SaveDone(j))

SpecJobs == InitJobs /\ [][NextJobs]_vars /\ Fairness

(***************************************************************************)
(* Properties                                                              *)
(***************************************************************************)
\* the paths the walker produces for one record
PathsOf(record) ==
  LET obs == discover_fields_recursive(record, <<>>, 0, NONE)
  IN {obs[j].path : j \in 1..Len(obs)}
\* the observations of the records walked so far, the current one included
ObservationsSoFar ==
  UNION {LET obs == discover_fields_recursive(records[r], <<>>, 0, NONE)
         IN {obs[j] : j \in 1..Len(obs)} : r \in 1..i}
\* discovered_fields has been assigned
HasFields == pc \notin {"start", "walk", "post"} /\ records # <<>>
\* data_quality has been assigned
HasQuality == pc \in {"phase8", "phase9", "done"} /\ records # <<>>
\* schema_recommendations has been assigned
HasSchema == pc \in {"phase9", "done"} /\ records # <<>>
IsPrefix(a, b) == Len(a) <= Len(b) /\ SubSeq(b, 1, Len(a)) = a

\* C1: while a record is walked, and once the batch is walked, the count of
\* every entry is the number of records (walked so far) that exhibit its path
\* at least once: one record never adds more than 1 to a count.
C1_CountIsRecordsExhibiting ==
  /\ pc = "walk" =>
       \A j \in 1..Len(field_registry) :
         field_registry[j].count
           <= Cardinality({r \in 1..i : field_registry[j].path \in PathsOf(records[r])})
  /\ pc = "post" =>
       \A j \in 1..Len(field_registry) :
         field_registry[j].count
           = Cardinality({r \in 1..Len(records) :
                            field_registry[j].path \in PathsOf(records[r])})

\* C2: every reported entry of a non-empty batch has a presence between 0 and
\* 100, and exactly 100.0 when its count is the number of records.
C2_PresenceBound ==
  HasFields =>
    \A j \in 1..Len(results.discovered_fields) :
      LET e == results.discovered_fields[j]
      IN /\ 0 <= e.presence_pct
         /\ e.presence_pct <= 10000
         /\ e.count = Len(records) => e.presence_pct = 10000

\* C3: no two reported entries have the same path, and there are as many
\* entries as distinct paths the walker produced over the batch.
C3_PathUniqueness ==
  HasFields =>
    LET df == results.discovered_fields
    IN /\ \A a, b \in 1..Len(df) : a # b => df[a].path # df[b].path
       /\ Len(df) = Cardinality(UNION {PathsOf(records[r]) : r \in 1..Len(records)})
\* a path seen in several records, and a path seen twice in one, is one entry
C3_Witness ==
  /\ pc = "done"
  /\ Len(records) >= 2
  /\ \E j \in 1..Len(results.discovered_fields) :
       results.discovered_fields[j].count > Len(records)

\* C4: no entry ever holds more than 5 samples, and every step of a run keeps
\* each entry's samples as a prefix of its samples after the step (nothing is
\* removed, reordered or deduplicated).
C4_SampleCapFirstSeen ==
  /\ [](\A j \in 1..Len(field_registry) :
          Len(field_registry[j].sample_values) <= 5)
  /\ [][run' = run =>
          \A j \in 1..Len(field_registry) :
            /\ j <= Len(field_registry')
            /\ field_registry'[j].path = field_registry[j].path
            /\ IsPrefix(field_registry[j].sample_values,
                        field_registry'[j].sample_values)]_vars
\* an entry at the cap that was observed more often, holding a value twice
C4_Witness ==
  \E j \in 1..Len(field_registry) :
    /\ Len(field_registry[j].sample_values) = 5
    /\ field_registry[j].count > 6
    /\ field_registry[j].sample_values[1] = field_registry[j].sample_values[2]

\* C5: every step of a run leaves name, description, category, ml_relevance
\* and type of every existing entry as they were when the entry was created.
C5_MetadataFixedAtCreation ==
  [][run' = run =>
       \A j \in 1..Len(field_registry) :
         /\ j <= Len(field_registry')
         /\ field_registry'[j].path = field_registry[j].path
         /\ field_registry'[j].name = field_registry[j].name
         /\ field_registry'[j].description = field_registry[j].description
         /\ field_registry'[j].category = field_registry[j].category
         /\ field_registry'[j].ml_relevance = field_registry[j].ml_relevance
         /\ field_registry'[j].type = field_registry[j].type]_vars
\* an entry that was observed again with another context's metadata and with
\* a value of another type
C5_Witness ==
  /\ pc = "walk"
  /\ todo = <<>>
  /\ \E j \in 1..Len(field_registry) :
       \E o \in ObservationsSoFar :
         /\ o.path = field_registry[j].path
         /\ field_registry[j].count >= 2
         /\ NewEntry(o).name # field_registry[j].name
         /\ NewEntry(o).category # field_registry[j].category
         /\ NewEntry(o).type # field_registry[j].type

\* C6: discovered_fields is ordered by presence_pct descending, ties by path
\* ascending, and the re-run on the same batch gives the entries in the same
\* order.
C6_SortedAndStable ==
  HasFields =>
    LET df == results.discovered_fields
    IN /\ \A a, b \in 1..Len(df) :
            a < b =>
              \/ df[a].presence_pct > df[b].presence_pct
              \/ /\ df[a].presence_pct = df[b].presence_pct
                 /\ StrLess(df[a].path, df[b].path)
       /\ run = 2 =>
            [j \in 1..Len(df) |-> df[j].path]
              = [j \in 1..Len(first.results.discovered_fields) |->
                   first.results.discovered_fields[j].path]
\* the re-run is over; the sort moved entries, there are ties and no ties
C6_Witness ==
  /\ run = 2
  /\ pc = "done"
  /\ LET df == results.discovered_fields
     IN /\ Len(df) >= 3
        /\ Paths(df) # Paths(field_registry)
        /\ \E a \in 1..(Len(df) - 1) : df[a].presence_pct = df[a + 1].presence_pct
        /\ \E a \in 1..(Len(df) - 1) : df[a].presence_pct > df[a + 1].presence_pct

\* C7: the re-run on the same batch returns a report identical to the first
\* run's, the order of every contexts list and of nested_structures included.
C7_RerunIdentical ==
  (run = 2 /\ pc = "done" /\ first.pc = "done") => results = first.results

\* C8: no pass raises, whatever the shape of the records.
C8_NeverRaises == pc # "raised"

\* C9: every entry is in exactly one tier (always: 100, mostly: [95, 100),
\* sometimes: [50, 95), rarely: below 50); the tier counts count the tiers'
\* entries and sum to unique_field_paths; always_present_fields lists the
\* 'always' paths and rarely_present_fields the first 20 'rarely' paths, in
\* sort order.
C9_TiersPartition ==
  HasQuality =>
    LET df == results.discovered_fields
        q == results.data_quality
        always == {j \in 1..Len(df) : df[j].presence_pct = 10000}
        mostly == {j \in 1..Len(df) :
                     9500 <= df[j].presence_pct /\ df[j].presence_pct < 10000}
        sometimes == {j \in 1..Len(df) :
                        5000 <= df[j].presence_pct /\ df[j].presence_pct < 9500}
        rarely == {j \in 1..Len(df) : df[j].presence_pct < 5000}
    IN /\ always \cup mostly \cup sometimes \cup rarely = 1..Len(df)
       /\ q.completeness.always_present = Cardinality(always)
       /\ q.completeness.mostly_present = Cardinality(mostly)
       /\ q.completeness.sometimes_present = Cardinality(sometimes)
       /\ q.completeness.rarely_present = Cardinality(rarely)
       /\ q.completeness.always_present + q.completeness.mostly_present
            + q.completeness.sometimes_present + q.completeness.rarely_present
          = q.unique_field_paths
       /\ Len(q.field_summary.always_present_fields) = Cardinality(always)
       /\ \A k \in 1..Len(q.field_summary.always_present_fields) :
            \E j \in always :
              /\ Cardinality({h \in always : h < j}) = k - 1
              /\ q.field_summary.always_present_fields[k] = df[j].path
       /\ Len(q.field_summary.rarely_present_fields) = Min(Cardinality(rarely), 20)
       /\ \A k \in 1..Len(q.field_summary.rarely_present_fields) :
            \E j \in rarely :
              /\ Cardinality({h \in rarely : h < j}) = k - 1
              /\ q.field_summary.rarely_present_fields[k] = df[j].path

\* C10: bigquery_schema holds exactly the entries with presence_pct >= 50, in
\* sort order, cut to the first 50; a column is REQUIRED iff its entry's
\* presence_pct is exactly 100, NULLABLE otherwise.
C10_SchemaSelection ==
  HasSchema =>
    LET df == results.discovered_fields
        bq == results.schema_recommendations.bigquery_schema
        eligible == {j \in 1..Len(df) : df[j].presence_pct >= 5000}
    IN /\ Len(bq) = Min(Cardinality(eligible), 50)
       /\ \A k \in 1..Len(bq) :
            \E j \in eligible :
              /\ Cardinality({h \in eligible : h < j}) = k - 1
              /\ bq[k].source_path = df[j].path
              /\ bq[k].mode = IF df[j].presence_pct = 10000
                              THEN "REQUIRED" ELSE "NULLABLE"
\* more than 50 entries qualify, at 50.00, and the list was cut
C10_Witness ==
  /\ HasSchema
  /\ Len(results.schema_recommendations.bigquery_schema) = 50
  /\ Cardinality({j \in 1..Len(results.discovered_fields) :
                    results.discovered_fields[j].presence_pct = 5000}) > 50
  /\ \A k \in 1..50 :
       results.schema_recommendations.bigquery_schema[k].mode = "NULLABLE"
\* ^[A-Za-z][A-Za-z0-9_]*$, at most 128 characters, no "__"
ValidColumnName(name) ==
  /\ name # <<>>
  /\ IsAlpha(name[1])
  /\ \A j \in 1..Len(name) : IsAlpha(name[j]) \/ IsDigit(name[j]) \/ name[j] = "_"
  /\ Len(name) <= NameCap
  /\ \A j \in 1..(Len(name) - 1) : ~(name[j] = "_" /\ name[j + 1] = "_")
\* C11: the column name made from any registered path starts with a letter,
\* has only letters, digits and underscores, is at most 128 characters long
\* and has no two consecutive underscores
C11_ColumnNamesValid ==
  HasFields =>
    \A j \in 1..Len(results.discovered_fields) :
      ValidColumnName(sanitize_bq_field_name(results.discovered_fields[j].path))

SetMin(S) == CHOOSE m \in S : \A x \in S : m <= x
KeysOf(d) == {d.kv[j].k : j \in 1..Len(d.kv)}
IsScalar(v) == ~IsDict(v) /\ ~IsList(v)
\* {pt: t, mc: [{id, rc: [{id, ltp}]}]} with a number t that is not 0
IsFullShape(r) ==
  /\ IsDict(r) /\ Len(r.kv) = 2 /\ KeysOf(r) = {K_pt, K_mc}
  /\ LET pt == DictGet(r, K_pt)
         mc == DictGet(r, K_mc)
     IN /\ pt.t \in {"int", "float"} /\ pt.n # 0
        /\ IsList(mc) /\ Len(mc.kv) = 1
        /\ LET m == mc.kv[1].v
           IN /\ IsDict(m) /\ Len(m.kv) = 2 /\ KeysOf(m) = {K_id, K_rc}
              /\ IsScalar(DictGet(m, K_id))
              /\ LET rc == DictGet(m, K_rc)
                 IN /\ IsList(rc) /\ Len(rc.kv) = 1
                    /\ LET runner == rc.kv[1].v
                       IN /\ IsDict(runner) /\ Len(runner.kv) = 2
                          /\ KeysOf(runner) = {K_id, K_ltp}
                          /\ IsScalar(DictGet(runner, K_id))
                          /\ IsScalar(DictGet(runner, K_ltp))
\* at least 2 records of the full shape, their timestamps all different
ScenarioA(recs) ==
  /\ Len(recs) >= 2
  /\ \A j \in 1..Len(recs) : IsFullShape(recs[j])
  /\ \A j, h \in 1..Len(recs) :
       j # h => Tenths(DictGet(recs[j], K_pt)) # Tenths(DictGet(recs[h], K_pt))
SixPaths ==
  LET mc0 == K_mc \o <<"[", "0", "]", ".">>
      rc0 == mc0 \o K_rc \o <<"[", "0", "]", ".">>
  IN {K_pt, K_mc, mc0 \o K_id, mc0 \o K_rc, rc0 \o K_id, rc0 \o K_ltp}

\* C12 (Scenario A): for a batch of N >= 2 records of the full shape with
\* distinct non-zero timestamps, the report has exactly the six entries pt,
\* mc, mc[0].id, mc[0].rc, mc[0].rc[0].id, mc[0].rc[0].ltp, each with count N
\* and presence 100; duration_ms is the largest timestamp minus the smallest;
\* the schema has exactly the six columns, each REQUIRED.
C12_ScenarioA ==
  (pc = "done" /\ ScenarioA(records)) =>
    LET df == results.discovered_fields
        bq == results.schema_recommendations.bigquery_schema
        pts == {Tenths(DictGet(records[j], K_pt)) : j \in 1..Len(records)}
    IN /\ Len(df) = 6
       /\ {df[j].path : j \in 1..Len(df)} = SixPaths
       /\ \A j \in 1..Len(df) :
            df[j].count = Len(records) /\ df[j].presence_pct = 10000
       /\ Tenths(results.temporal_analysis.duration_ms)
            = SetMax(pts) - SetMin(pts)
       /\ Len(bq) = 6
       /\ {bq[k].source_path : k \in 1..Len(bq)} = SixPaths
       /\ \A k \in 1..Len(bq) : bq[k].mode = "REQUIRED"
\* three full messages handed over latest first, 2 ms from first to last
C12_Witness ==
  /\ pc = "done"
  /\ ScenarioA(records)
  /\ Len(records) = 3
  /\ DictGet(records[1], K_pt).n > DictGet(records[3], K_pt).n
  /\ results.temporal_analysis.duration_ms = JInt(2)
  /\ results.total_records = 3

\* value_distributions has been assigned
HasDistributions ==
  /\ pc \in {"phase5", "phase6", "phase7", "phase8", "phase9", "done", "raised"}
  /\ records # <<>>
\* the texts of the non-null scalar values the walker meets at the path in
\* one record
ScalarTextsAt(record, path) ==
  LET obs == discover_fields_recursive(record, <<>>, 0, NONE)
      hit == SelectSeq(obs, LAMBDA o : /\ o.path = path
                                       /\ o.value # JNull /\ IsScalar(o.value))
  IN [j \in 1..Len(hit) |-> Str(hit[j].value)]
\* the same over the first records of the batch, in batch order
ExpectedTexts(path) ==
  LET n == Min(Len(records), DistributionSample)
  IN Flatten([j \in 1..n |-> ScalarTextsAt(records[j], path)], 1, n)
Occurrences(texts, text) == Cardinality({j \in 1..Len(texts) : texts[j] = text})
Abs(x) == IF x < 0 THEN 0 - x ELSE x
\* d is the distribution of the texts: sample size, number of distinct
\* values, at most 20 items, each with its count and its share of the sample
\* in hundredths of a percent, by falling count, none left out that is more
\* frequent than a listed one
DistributionOf(d, texts) ==
  LET distinct == {texts[j] : j \in 1..Len(texts)}
      items == d.distribution
      listed == {items[j].value : j \in 1..Len(items)}
  IN /\ d.sample_size = Len(texts)
     /\ d.unique_values = Cardinality(distinct)
     /\ Len(items) = Min(Cardinality(distinct), DistributionCap)
     /\ Cardinality(listed) = Len(items)
     /\ \A j \in 1..Len(items) :
          /\ items[j].value \in distinct
          /\ items[j].count = Occurrences(texts, items[j].value)
          /\ 2 * Abs(items[j].pct * Len(texts) - 10000 * items[j].count)
               <= Len(texts)
     /\ \A j \in 1..(Len(items) - 1) : items[j].count >= items[j + 1].count
     /\ \A text \in distinct \ listed :
          \A j \in 1..Len(items) : Occurrences(texts, text) <= items[j].count

PathsHeld(record) == IF IsDict(record) THEN PathsOf(record) ELSE {}
TypeNames == {"NoneType", "bool", "int", "float", "str", "list", "dict"}

\* C14: when the distribution pass starts, for every record of the batch and
\* every registered path, get_nested_value returns a value, and it returns
\* None when the record does not hold the path (the record or a value on the
\* way is a scalar, a list is met by a key, an index is out of range, a key is
\* missing, a null is on the way); once the pass has run, the sample of a
\* field holds no more values than there are records holding the path among
\* the first 10,000; and the pass does not raise.
C14_UnresolvedIsNone ==
  /\ pc = "phase4" =>
       /\ exception = ""
       /\ \A j \in 1..Len(records) :
            LET held == PathsHeld(records[j])
            IN \A h \in 1..Len(field_registry) :
                 LET value == get_nested_value(records[j], field_registry[h].path)
                 IN /\ value.t \in TypeNames
                    /\ field_registry[h].path \notin held => value = JNull
  /\ HasDistributions =>
       \A h \in 1..Len(results.value_distributions) :
         LET d == results.value_distributions[h]
             n == Min(Len(records), DistributionSample)
         IN /\ d.sample_size >= 1
            /\ d.sample_size
                 <= Cardinality({j \in 1..n : d.field \in PathsHeld(records[j])})
  /\ pc = "raised" => HasDistributions
\* the pass has built the distribution of mc[0].status from a batch whose
\* last record has an empty mc array, so that the index 0 is out of range,
\* and the sample is smaller than the batch
C14_Witness ==
  /\ pc = "phase5"
  /\ records # <<>>
  /\ LET last == records[Len(records)]
     IN /\ IsDict(last)
        /\ DictGet(last, K_mc) = JList(<<>>)
        /\ \E h \in 1..Len(results.value_distributions) :
             LET d == results.value_distributions[h]
             IN /\ d.field = K_mc \o <<"[", "0", "]", ".">> \o K_status
                /\ d.field \notin PathsHeld(last)
                /\ get_nested_value(last, d.field) = JNull
                /\ d.sample_size = Len(records) - 1

\* the temporal pass has run to its end
HasTemporal ==
  /\ pc \in {"phase6", "phase7", "phase8", "phase9", "done"}
  /\ records # <<>>
\* the records that carry a pt scalar
CarryPt(recs) ==
  {j \in 1..Len(recs) :
     /\ IsDict(recs[j]) /\ HasKey(recs[j], K_pt)
     /\ LET pt == DictGet(recs[j], K_pt) IN pt # JNull /\ IsScalar(pt)}

\* C15: once the temporal pass has run on a batch in which some record
\* carries a pt scalar, total_timestamps is the number of records that carry
\* one, whatever its value; when the values are numbers, first_timestamp and
\* last_timestamp are the smallest and the largest of them, duration_ms is
\* their difference, and avg_interval_ms is the duration divided by the
\* number of timestamps, rounded to an integer.
C15_EveryPtCounted ==
  HasTemporal /\ CarryPt(records) # {} =>
    LET carried == CarryPt(records)
        pts == {DictGet(records[j], K_pt) : j \in carried}
        ta == results.temporal_analysis
    IN /\ ta # <<>>
       /\ ta.total_timestamps = Cardinality(carried)
       /\ (\A pt \in pts : IsNumber(pt)) =>
            LET low == SetMin({Tenths(pt) : pt \in pts})
                high == SetMax({Tenths(pt) : pt \in pts})
            IN /\ Tenths(ta.first_timestamp) = low
               /\ Tenths(ta.last_timestamp) = high
               /\ Tenths(ta.duration_ms) = high - low
               /\ ta.avg_interval_ms
                    = RoundHalfEven(high - low, 10 * Cardinality(carried))

\* C16: once the temporal pass has run on a non-empty batch that gave fewer
\* than 2 timestamps, temporal_analysis reports duration_ms = 0,
\* avg_interval_ms = 0 and duration_readable = "N/A"; no run ends in a
\* ZeroDivisionError, and the numbers the passes divide by (the batch size,
\* the sample size of a distribution) are not 0.
C16_FewTimestamps ==
  /\ HasTemporal /\ Len(timestamps) < 2 =>
       LET ta == results.temporal_analysis
       IN /\ ta # <<>>
          /\ ta.duration_ms = JInt(0)
          /\ ta.avg_interval_ms = 0
          /\ ta.duration_readable = "N/A"
  /\ exception # "ZeroDivisionError"
  /\ HasFields => results.total_records > 0
  /\ HasDistributions =>
       \A h \in 1..Len(results.value_distributions) :
         results.value_distributions[h].sample_size > 0

Sections ==
  {"discovered_fields", "field_categories", "structure_analysis",
   "value_distributions", "temporal_analysis", "examples", "data_quality",
   "schema_recommendations", "ml_suggestions"}

\* C17: on a batch of zero records the run goes from its start straight to
\* its end: it does not raise, no walk and no pass runs (nothing is
\* registered, no timestamp is collected), and the report it returns has
\* total_records = 0 and every one of the nine sections, each of them empty.
C17_EmptyBatch ==
  records = <<>> =>
    /\ pc \in {"start", "done"}
    /\ exception = ""
    /\ field_registry = <<>> /\ todo = <<>> /\ timestamps = <<>>
    /\ pc = "done" =>
         /\ Sections \subseteq DOMAIN results
         /\ results.total_records = 0
         /\ \A section \in Sections : results[section] = <<>>
\* the run on the empty batch has returned its report
C17_Witness ==
  records = <<>> /\ pc = "done" /\ run = 1 /\ results.total_records = 0

EntriesAt(registry, path) ==
  {registry[j] : j \in {h \in 1..Len(registry) : registry[h].path = path}}

\* C18: the step of the walk that registers the observation of a key whose
\* value is an empty array does not raise; after it the key's path has one
\* entry, created by the step with count 1 and the type list (no
\* array[...]), or counted once more if it was there; and no later
\* observation of the record has a path below <path>[.
C18_EmptyArray ==
  [][pc = "walk" /\ todo # <<>> /\ Head(todo).value = JList(<<>>) =>
       LET o == Head(todo)
           before == EntriesAt(field_registry, o.path)
           after == EntriesAt(field_registry', o.path)
       IN /\ ValueType(o.value) = <<"l", "i", "s", "t">>
          /\ pc' = "walk" /\ exception' = ""
          /\ Cardinality(after) = 1
          /\ \A e \in after :
               IF before = {}
               THEN e.count = 1 /\ e.type = <<"l", "i", "s", "t">>
               ELSE \A b \in before : e.count = b.count + 1 /\ e.type = b.type
          /\ todo' = Tail(todo)
          /\ \A j \in 1..Len(todo') :
               ~IsPrefix(o.path \o <<"[">>, todo'[j].path)]_vars
\* the walk of {"mc": [], "id": null} has just created the entry of mc, with
\* the type list, and goes on with id
C18_Witness ==
  /\ pc = "walk" /\ i >= 1 /\ records[i] = RecEmptyMc
  /\ Len(todo) = 1 /\ todo[1].path = K_id
  /\ \E e \in EntriesAt(field_registry, K_mc) :
       e.type = <<"l", "i", "s", "t">> /\ e.count = 1
  /\ \A j \in 1..Len(field_registry) :
       ~IsPrefix(K_mc \o <<"[">>, field_registry[j].path)

\* the samples stored under the path, none when the path has no entry
SamplesAt(registry, path) ==
  IF EntriesAt(registry, path) = {} THEN <<>>
  ELSE (CHOOSE e \in EntriesAt(registry, path) : TRUE).sample_values

\* C19: a step of the walk that registers the observation of a scalar or of
\* an array under a path with fewer than 5 samples appends one sample to the
\* path's samples: the scalar itself, or the array's first 3 elements,
\* whatever the array's length; and no stored array sample has more than 3
\* elements.
C19_OneSamplePerObservation ==
  [][/\ pc = "walk" /\ todo # <<>> /\ ~IsDict(Head(todo).value)
     /\ Len(SamplesAt(field_registry, Head(todo).path)) < SampleCap
     => LET o == Head(todo)
            expected == IF IsList(o.value)
                        THEN [o.value EXCEPT
                                !.kv = SubSeq(@, 1, Min(Len(@), 3))]
                        ELSE o.value
        IN /\ SamplesAt(field_registry', o.path)
                = Append(SamplesAt(field_registry, o.path), expected)
           /\ \A j \in 1..Len(field_registry') :
                \A h \in 1..Len(field_registry'[j].sample_values) :
                  LET sample == field_registry'[j].sample_values[h]
                  IN IsList(sample) => Len(sample.kv) <= 3]_vars

\* the tag of the key k met under the context c
Tag(k, c) ==
  CASE k = K_mc -> "mc"
    [] k = K_rc -> "rc"
    [] k = K_marketDefinition -> "marketDefinition"
    [] k = K_runners -> "runners"
    [] k = K_oc -> "oc"
    [] k = K_uo -> "uo"
    [] OTHER -> c
\* the observation child lies straight below the observation parent: in the
\* object parent holds, or in one of the first objects of the array it holds
Below(parent, child) ==
  \/ child.path = parent.path \o <<".">> \o child.key
  \/ \E n \in 0..(WalkItems - 1) :
       child.path = ItemPath(parent.path, n) \o <<".">> \o child.key
\* the observations of one record are tagged by name: each one's own
\* context comes from its key and the context it was met under; one at the
\* top of the record was met under no context, any other under the context
\* of the nearest observation before it that it lies below
Tagged(obs) ==
  \A j \in 1..Len(obs) :
    /\ obs[j].child_context = Tag(obs[j].key, obs[j].context)
    /\ IF obs[j].path = obs[j].key THEN obs[j].context = NONE
       ELSE LET above == {h \in 1..(j - 1) : Below(obs[h], obs[j])}
            IN /\ above # {}
               /\ obs[j].context = obs[SetMax(above)].child_context

\* C20: the observations the walker makes of a record are tagged by name
\* (the context of key k met under context c is k's own tag if k is mc, rc,
\* marketDefinition, runners, oc or uo, and c otherwise, and it is the
\* context everything straight below k is met under); and the step that
\* creates an entry looks up the key's metadata under that context.
C20_ContextTagging ==
  [][/\ pc = "walk" /\ todo = <<>> /\ todo' # <<>> => Tagged(todo')
     /\ pc = "walk" /\ todo # <<>>
          /\ EntriesAt(field_registry, Head(todo).path) = {} =>
          LET o == Head(todo)
              field_info == get_field_info(o.key, Tag(o.key, o.context))
          IN \E e \in EntriesAt(field_registry', o.path) :
               /\ e.name = field_info.name
               /\ e.description = field_info.description
               /\ e.category = field_info.category]_vars
\* the walk of {"mc": [{"status": {"id": 1}}]} has come to the key id, met
\* under the context mc that the key status has handed down
C20_Witness ==
  /\ pc = "walk" /\ todo # <<>>
  /\ Head(todo).key = K_id
  /\ Head(todo).path = K_mc \o <<"[", "0", "]", ".">> \o K_status \o <<".">> \o K_id
  /\ Head(todo).context = "mc"
  /\ Head(todo).child_context = "mc"
  /\ EntriesAt(field_registry, K_mc \o <<"[", "0", "]", ".">> \o K_status) # {}

\* p[n] for an index n below 10
Indexed(p, n) == p \o <<"[", DigitChar(n), "]">>
\* the objects among the first elements of the array: the indexes (from 0)
\* the walker descends into
WalkedIndexes(array) ==
  {n \in 0..(Len(array.kv) - 1) : n < 3 /\ IsDict(array.kv[n + 1].v)}
\* of the observations obs of one record, the one at position j is of an
\* array: every key of the objects among the array's first 3 elements is
\* observed under <path>[n] with n the element's index, and nothing else is
\* observed under <path>[
ArrayWalked(obs, j) ==
  LET p == obs[j].path
      array == obs[j].value
  IN /\ \A n \in WalkedIndexes(array) :
          LET item == array.kv[n + 1].v
          IN \A k \in 1..Len(item.kv) :
               \E h \in (j + 1)..Len(obs) :
                 /\ obs[h].path = Indexed(p, n) \o <<".">> \o item.kv[k].k
                 /\ obs[h].value = item.kv[k].v
     /\ \A h \in 1..Len(obs) :
          IsPrefix(p \o <<"[">>, obs[h].path) =>
            \E n \in WalkedIndexes(array) :
              IsPrefix(Indexed(p, n) \o <<".">>, obs[h].path)

\* C21: when the walk of a record starts, the observations it is going to
\* register are such that, for every array observed at a path p, the fields
\* of the objects at the indexes 0, 1 and 2 are observed under p[i], with i
\* the element's own index, and nothing of an element at an index of 3 or
\* more, or of an element that is no object, is observed.
C21_FirstThreeElements ==
  [][pc = "walk" /\ todo = <<>> /\ todo' # <<>> =>
       \A j \in 1..Len(todo') : IsList(todo'[j].value) => ArrayWalked(todo', j)]_vars
\* the walk of the record with the mixed array is over: a[1].id and a[2].id
\* are registered, nothing under a[0] or a[3] is
C21_Witness ==
  /\ pc = "post" /\ records = <<RecMixedArray>>
  /\ {field_registry[j].path : j \in 1..Len(field_registry)}
       = {K_a, Indexed(K_a, 1) \o <<".">> \o K_id,
          Indexed(K_a, 2) \o <<".">> \o K_id}

RECURSIVE Reach(_, _, _)
Reach(obj, path, depth) ==
  {[obj |-> obj, path |-> path, depth |-> depth]}
  \cup UNION {
         LET value == obj.kv[k].v
             at == IF path = <<>> THEN obj.kv[k].k ELSE path \o <<".">> \o obj.kv[k].k
         IN IF IsDict(value) THEN Reach(value, at, depth + 1)
            ELSE IF IsList(value)
            THEN UNION {Reach(value.kv[n + 1].v, Indexed(at, n), depth + 1) :
                          n \in WalkedIndexes(value)}
            ELSE {} : k \in 1..Len(obj.kv)}

\* C23: when the walk of a record starts, the observations it is going to
\* register hold every key of every object that lies at a depth of at most
\* max_depth, and no key of an object that lies deeper; and each step of the
\* walk takes one observation off the list, so that the walk ends.
C23_DepthCeiling ==
  [][/\ pc = "walk" /\ todo = <<>> /\ i' = i + 1 =>
          \A x \in Reach(records[i'], <<>>, 0) :
            \A k \in 1..Len(x.obj.kv) :
              LET at == IF x.path = <<>> THEN x.obj.kv[k].k
                        ELSE x.path \o <<".">> \o x.obj.kv[k].k
              IN x.depth <= max_depth
                   <=> \E j \in 1..Len(todo') :
                         todo'[j].path = at /\ todo'[j].value = x.obj.kv[k].v
     /\ pc = "walk" /\ todo # <<>> => Len(todo') = Len(todo) - 1]_vars
\* the walk of a record nested 12 deep is over: the key at depth 10 is
\* registered, 11 entries in all, and the key id at depth 12 is not
C23_Witness ==
  /\ pc = "post" /\ records = <<Nest(MaxNest, FALSE)>>
  /\ Len(field_registry) = max_depth + 1
  /\ \A j \in 1..Len(field_registry) : field_registry[j].key = K_a

\* ml_suggestions has been assigned
HasSuggestions == pc = "done" /\ records # <<>>
\* some discovered path has the word in it
SomePathHas(word) ==
  \E j \in 1..Len(results.discovered_fields) :
    Contains(word, results.discovered_fields[j].path)
\* some suggestion is of one of the model types
Suggests(model_types) ==
  \E j \in 1..Len(results.ml_suggestions) :
    results.ml_suggestions[j].model_type \in model_types

\* C24: in the report of a non-empty batch, each data-shape predicate that is
\* true has its suggestion: price fields (ltp, batb) give the visual price
\* pattern model, order-book ladders (batb, batl) give a model fed from the
\* ladders, more than 100 timestamps give the price movement model over the
\* time series, and marketDefinition fields give the market classification.
C24_PredicateGivesSuggestion ==
  HasSuggestions =>
    /\ SomePathHas(K_ltp) \/ SomePathHas(<<"b", "a", "t", "b">>) =>
         Suggests({"Visual Price Patterns (Heat Map CNN)"})
    /\ SomePathHas(<<"b", "a", "t", "b">>) \/ SomePathHas(K_batl) =>
         Suggests({"Price Movement Prediction", "Market Microstructure Analysis",
                   "Visual Price Patterns (Heat Map CNN)"})
    /\ Len(timestamps) > 100 => Suggests({"Price Movement Prediction"})
    /\ SomePathHas(K_marketDefinition) => Suggests({"Market Classification"})

\* examples has been assigned
HasExamples == pc \in {"phase7", "phase8", "phase9", "done"} /\ records # <<>>
\* the elements of an array that are objects; none for any other value
ObjectsIn(value) ==
  IF IsList(value)
  THEN {value.kv[j].v : j \in {h \in 1..Len(value.kv) : IsDict(value.kv[h].v)}}
  ELSE {}
\* some element of the record's mc array contains marketDefinition
ShowsDefinition(record) ==
  IsDict(record) /\ \E m \in ObjectsIn(DictGet(record, K_mc)) :
                      K_marketDefinition \in KeysOf(m)
\* some element of the rc array of some element of the record's mc array
\* contains one of ltp, batb, batl, trd
ShowsPrices(record) ==
  IsDict(record) /\ \E m \in ObjectsIn(DictGet(record, K_mc)) :
                      \E r \in ObjectsIn(DictGet(m, K_rc)) :
                        KeysOf(r) \cap {K_ltp, <<"b", "a", "t", "b">>, K_batl,
                                        <<"t", "r", "d">>} # {}
\* the example of the label is the first record whose index is in showing,
\* and there is none when showing is empty
EarliestExample(label, showing) ==
  LET found == {j \in 1..Len(results.examples) : results.examples[j].example = label}
  IN IF showing = {} THEN found = {}
     ELSE /\ Cardinality(found) = 1
          /\ \A j \in found : results.examples[j].record = records[SetMin(showing)]

StorageType(type, samples) ==
  CASE type = <<"i", "n", "t">> -> "INT64"
    [] type = <<"f", "l", "o", "a", "t">> -> "FLOAT64"
    [] type = <<"b", "o", "o", "l">> -> "BOOL"
    [] type = <<"d", "i", "c", "t">> -> "RECORD"
    [] type = W_array \o <<"[">> \o W_object \o <<"]">> -> "RECORD"
    [] type = W_array \o <<"[">> \o W_array \o <<"]">> -> "STRING"
    [] OTHER ->
         IF IsPrefix(W_array \o <<"[">>, type) THEN "ARRAY<STRING>"
         ELSE IF samples # <<>> /\ samples[1].t = "bool" THEN "BOOL"
         ELSE IF samples # <<>> /\ samples[1].t = "int" THEN "INT64"
         ELSE IF samples # <<>> /\ samples[1].t = "float" THEN "FLOAT64"
         ELSE "STRING"

\* C26: every column of the schema has the storage type its entry's
\* discovered type calls for (int, float, bool give INT64, FLOAT64, BOOL; dict
\* and array[object] give RECORD; array[array] gives STRING; any other
\* array[...] gives ARRAY<STRING>; any other type gives the type of the first
\* sample, or STRING), and no column of an entry whose type is an array has a
\* scalar storage type.
C26_StorageTypes ==
  HasSchema =>
    \A j \in 1..Len(results.schema_recommendations.bigquery_schema) :
      LET column == results.schema_recommendations.bigquery_schema[j]
      IN \A h \in 1..Len(results.discovered_fields) :
           LET f == results.discovered_fields[h]
           IN f.path = column.source_path =>
                /\ column.type = StorageType(f.type, f.sample_values)
                /\ IsPrefix(W_array, f.type) =>
                     column.type \notin {"INT64", "FLOAT64", "BOOL"}

\* C27: within one bigquery_schema, two columns that come from different
\* paths have different names.
C27_ColumnNamesUnique ==
  HasSchema =>
    \A j, h \in 1..Len(results.schema_recommendations.bigquery_schema) :
      LET a == results.schema_recommendations.bigquery_schema[j]
          b == results.schema_recommendations.bigquery_schema[h]
      IN a.source_path # b.source_path => a.name # b.name

\* C28: while a record is walked, every observation still to be registered
\* that has a value other than null is found again by the path resolver:
\* get_nested_value of the record and the observation's path is the
\* observation's value.
C28_RoundTrip ==
  pc = "walk" /\ i >= 1 =>
    \A j \in 1..Len(todo) :
      todo[j].value # JNull =>
        get_nested_value(records[i], todo[j].path) = todo[j].value

\* the values a job's status takes
JobStates == {"submitted", "running", "complete", "error"}
\* the moves of a status
Forward ==
  {<<"submitted", "running">>, <<"running", "complete">>,
   <<"submitted", "error">>, <<"running", "error">>}
\* a job whose session could not be saved
SaveFailedJob(job) == "session_saved" \in DOMAIN job /\ ~job.session_saved
\* what every job record satisfies
JobRecordsSound ==
  \A j \in 1..Len(job_status) :
    LET job == job_status[j]
    IN /\ job.status \in JobStates
       /\ job.status = "complete" =>
            /\ "result" \in DOMAIN job
            /\ job.result \in AnalysisResults
            /\ job.progress = 100
       /\ SaveFailedJob(job) => job.status = "complete"
\* what every step keeps
JobStep ==
  /\ Len(job_status') >= Len(job_status)
  /\ \A j \in 1..Len(job_status) :
       LET before == job_status[j]
           after == job_status'[j]
       IN /\ before.status # after.status =>
               <<before.status, after.status>> \in Forward
          /\ before.status \in {"complete", "error"} => after = before
          /\ task[j].at = "saving" /\ task'[j].at # "saving" =>
               after.status = "complete"
\* what GET /status answers for a finished job
StatusAnswerSound ==
  (response.code = 200 /\ "progress" \in DOMAIN response) =>
    /\ response.job_id \in 1..Len(job_status)
    /\ response.status \in JobStates
    /\ response.status = "complete" =>
         /\ response.progress = 100
         /\ response.result \in AnalysisResults
         /\ response.session_saved \in BOOLEAN

\* C29: a job's status is one of submitted, running, complete, error and
\* moves only submitted -> running -> complete or submitted/running ->
\* error; a complete or error record never changes again; a complete
\* record holds the analysis result with progress 100; when saving the
\* session fails the job still ends complete, with session_saved false.
C29_JobStatusForward ==
  /\ [](JobRecordsSound /\ StatusAnswerSound)
  /\ [][JobStep]_vars

\* a job ended complete although its session could not be saved, and GET
\* /status has shown it
C29_Witness ==
  /\ response.code = 200
  /\ "session_saved" \in DOMAIN response
  /\ ~response.session_saved
  /\ response.job_id \in 1..Len(job_status)
  /\ job_status[response.job_id].status = "complete"
  /\ SaveFailedJob(job_status[response.job_id])

\* the job is in the table
Recorded(j) == j \in 1..Len(job_status)
\* the job is in the table with a final status
Ended(j) == Recorded(j) /\ job_status[j].status \in {"complete", "error"}

\* C30: every job POST /analyze has recorded, run directly or posted with
\* use_batch, eventually has status complete or error; none stays
\* submitted or running forever.
C30_EveryJobEnds == \A j \in 1..MaxJobs : Recorded(j) ~> Ended(j)

==============================================================================
